---- MODULE Spec2Model ----
(***************************************************************************)
(* Figures/figures_script.py: the three figure functions of the paper, the *)
(* scalar model functions they evaluate (w_z, S_z, variance_attractor),    *)
(* the grid evaluation of plot_resilience_valley and the __main__ block.   *)
(*                                                                         *)
(* The reals of variance_attractor and the inputs of w_z and S_z are       *)
(* fixed-point integers in units of 1/Scale (0.15 is 150).  The float64    *)
(* arithmetic of w_z and S_z is floating point with a mantissa of four     *)
(* limbs in base 10000 (13 to 16 significant decimal digits) over the      *)
(* whole float64 range: an X value is a record [k, s, m, e] with k one of  *)
(*   "num"   the number s * m * 10000^e, the mantissa m a tuple of four    *)
(*           limbs, the first not 0, or the float 0.0 (s = 0, m all 0)     *)
(*   "inf"   the IEEE infinity of sign s                                   *)
(*   "nan"   the IEEE not-a-number                                         *)
(*   "raise" no value: the operation raised ZeroDivisionError              *)
(* Between NumPy arrays or scalars a division by zero or a logarithm       *)
(* outside its domain yields inf or nan (and a RuntimeWarning), never an   *)
(* exception; the division of two Python floats by zero raises.            *)
(***************************************************************************)
EXTENDS Integers, Sequences, FiniteSets, TLC

\* ------------------------------------------------------------------------
\* Fixed-point arithmetic
\* ------------------------------------------------------------------------

\* Units per 1.0.
Scale == 1000

AbsI(a) == IF a < 0 THEN -a ELSE a

SignI(a) == IF a < 0 THEN -1 ELSE IF a > 0 THEN 1 ELSE 0

\* a / b rounded to the nearest integer (halves away from zero), b > 0.
RoundDiv(a, b) ==
    IF a >= 0 THEN (a + b \div 2) \div b ELSE -((-a + b \div 2) \div b)

\* The product of two fixed-point numbers.
MulFx(a, b) == RoundDiv(a * b, Scale)

\* The quotient of two fixed-point numbers, b # 0.
DivFx(a, b) ==
    IF b > 0 THEN RoundDiv(a * Scale, b) ELSE RoundDiv(-(a * Scale), -b)

\* e^n and e^(-n) in fixed point, for the whole part of an exponent.
ExpWholeFx == <<1000, 2718, 7389, 20086, 54598, 148413, 403429, 1096633>>

ExpNegWholeFx == <<1000, 368, 135, 50, 18, 7, 2, 1>>

\* The Taylor series of e^(sgn * f/Scale) for 0 <= f < Scale, from term k on.
RECURSIVE ExpSeries(_, _, _, _, _)
ExpSeries(f, sgn, k, term, acc) ==
    IF term = 0 \/ k > 12 THEN acc
    ELSE LET next == RoundDiv(term * f, k * Scale)
         IN  ExpSeries(f, sgn, k + 1, next,
                       acc + (IF sgn < 0 /\ k % 2 = 1 THEN -next ELSE next))

\* e^(x/Scale) for x < 8 * Scale; zero to the last digit from x <= -8 * Scale.
ExpFx(x) ==
    IF x >= 0
    THEN LET n == x \div Scale
             f == x % Scale
         IN  RoundDiv(ExpWholeFx[n + 1] * ExpSeries(f, 1, 1, Scale, Scale), Scale)
    ELSE LET n == (-x) \div Scale
             f == (-x) % Scale
         IN  IF n >= 8 THEN 0
             ELSE RoundDiv(ExpNegWholeFx[n + 1] * ExpSeries(f, -1, 1, Scale, Scale),
                           Scale)

\* ------------------------------------------------------------------------
\* float64 values: floating point of four limbs in base 10000
\* ------------------------------------------------------------------------

\* The base of a limb, and the number of limbs of a mantissa: a nonzero
\* number carries 13 to 16 significant decimal digits.
Base == 10000

NLimbs == 4

\* Natural numbers are sequences of limbs, the most significant first.
Zeros(n) == [i \in 1..n |-> 0]

\* seq plus the carry c into its last limb, every limb brought into
\* 0..Base-1 (a negative entry borrows from the limb before it).
RECURSIVE Carry(_, _)
Carry(seq, c) ==
    IF Len(seq) = 0
    THEN IF c = 0 THEN <<>>
         ELSE Append(Carry(<<>>, c \div Base), c % Base)
    ELSE LET t == seq[Len(seq)] + c
         IN  Append(Carry(SubSeq(seq, 1, Len(seq) - 1), t \div Base),
                    t % Base)

\* seq without its leading zero limbs.
RECURSIVE Strip(_)
Strip(seq) ==
    IF seq = <<>> \/ seq[1] # 0 THEN seq ELSE Strip(Tail(seq))

\* seq with zero limbs in front, n limbs in all.
PadTo(seq, n) == Zeros(n - Len(seq)) \o seq

\* The order of two naturals of as many limbs: -1, 0 or 1.
RECURSIVE Cmp(_, _)
Cmp(a, b) ==
    IF a = <<>> THEN 0
    ELSE IF a[1] > b[1] THEN 1
    ELSE IF a[1] < b[1] THEN -1
    ELSE Cmp(Tail(a), Tail(b))

\* a + b and a - b (a >= b) for naturals of as many limbs; seq * k for a
\* limb k.
Plus(a, b) == Carry([i \in 1..Len(a) |-> a[i] + b[i]], 0)

Minus(a, b) == Carry([i \in 1..Len(a) |-> a[i] - b[i]], 0)

Times(seq, k) == Carry([i \in 1..Len(seq) |-> seq[i] * k], 0)

\* The largest float64, 1.7976931348623157e308, is MaxMant * Base^MaxExp.
MaxMant == <<1, 7976, 9313, 4862>>

MaxExp == 74

\* The smallest float64 above zero is 4.94e-324; a result below half of it,
\* MinMant * Base^MinExp, rounds to zero.
MinMant == <<2, 4703, 2822, 9206>>

MinExp == -84

\* The number sg * mant * Base^ex, mant of NLimbs limbs, the first not 0.
Num(sg, mant, ex) == [k |-> "num", s |-> sg, m |-> mant, e |-> ex]

\* The float 0.0: the only number with a zero mantissa.
Zero == [k |-> "num", s |-> 0, m |-> Zeros(NLimbs), e |-> 0]

Inf(sg) == [k |-> "inf", s |-> sg, m |-> Zeros(NLimbs), e |-> 0]

NaN == [k |-> "nan", s |-> 0, m |-> Zeros(NLimbs), e |-> 0]

\* The outcome of an operation that raised ZeroDivisionError.
Raise == [k |-> "raise", s |-> 0, m |-> Zeros(NLimbs), e |-> 0]

\* The largest float64.
MaxFloat == Num(1, MaxMant, MaxExp)

\* A mantissa of NLimbs limbs in the float64 range: +-inf beyond the
\* largest float64, zero below the smallest.
InRange(sg, mant, ex) ==
    IF ex > MaxExp \/ (ex = MaxExp /\ Cmp(mant, MaxMant) > 0) THEN Inf(sg)
    ELSE IF ex < MinExp \/ (ex = MinExp /\ Cmp(mant, MinMant) < 0) THEN Zero
    ELSE Num(sg, mant, ex)

\* The float64 nearest to sg * seq * Base^ex: leading zeros dropped, the
\* limbs after the NLimbs-th rounded off.
Norm(sg, seq, ex) ==
    LET s1 == Strip(seq)
        n  == Len(s1)
    IN  IF sg = 0 \/ n = 0 THEN Zero
        ELSE IF n <= NLimbs
        THEN InRange(sg, s1 \o Zeros(NLimbs - n), ex - (NLimbs - n))
        ELSE LET up == IF 2 * s1[NLimbs + 1] >= Base THEN 1 ELSE 0
                 r  == Carry(SubSeq(s1, 1, NLimbs), up)
             IN  IF Len(r) > NLimbs
                 THEN InRange(sg, SubSeq(r, 1, NLimbs), ex + n - NLimbs + 1)
                 ELSE InRange(sg, r, ex + n - NLimbs)

\* The limbs of an integer n >= 0.
Limbs(n) == <<n \div (Base * Base), (n \div Base) % Base, n % Base>>

\* The float of the integer n.
FromInt(n) == Norm(SignI(n), Limbs(AbsI(n)), 0)

\* The float of a fixed-point number: n / Scale = 10 n / Base.
Fin(n) == Norm(SignI(n), Times(Limbs(AbsI(n)), 10), -1)

One == Fin(Scale)

IsZero(x) == x.k = "num" /\ x.s = 0

\* The whole part of a number 0 <= x < 2^31.
ToInt(x) ==
    IF IsZero(x) \/ x.e <= -4 THEN 0
    ELSE IF x.e = -3 THEN x.m[1]
    ELSE IF x.e = -2 THEN x.m[1] * Base + x.m[2]
    ELSE (x.m[1] * Base + x.m[2]) * Base + x.m[3]

\* -x.
XNeg(x) == IF x.k \in {"num", "inf"} THEN [x EXCEPT !.s = -x.s] ELSE x

\* The sum of two nonzero numbers, a of the larger exponent.
AddNum(a, b) ==
    LET d  == a.e - b.e
        am == a.m \o Zeros(d)
        bm == Zeros(d) \o b.m
        c  == Cmp(am, bm)
    IN  IF d > NLimbs + 1 THEN a
        ELSE IF a.s = b.s THEN Norm(a.s, Plus(am, bm), b.e)
        ELSE IF c = 0 THEN Zero
        ELSE IF c > 0 THEN Norm(a.s, Minus(am, bm), b.e)
        ELSE Norm(b.s, Minus(bm, am), b.e)

\* a + b: inf + (-inf) is nan.
XAdd(a, b) ==
    CASE a.k = "raise" \/ b.k = "raise" -> Raise
      [] a.k = "nan" \/ b.k = "nan" -> NaN
      [] a.k = "inf" /\ b.k = "inf" -> IF a.s = b.s THEN a ELSE NaN
      [] a.k = "inf" -> a
      [] b.k = "inf" -> b
      [] IsZero(a) -> b
      [] IsZero(b) -> a
      [] OTHER -> IF a.e >= b.e THEN AddNum(a, b) ELSE AddNum(b, a)

\* The order of two numbers: the sign of a - b.
XCmp(a, b) == XAdd(a, XNeg(b)).s

\* The limb of weight Base^(2 NLimbs - 1 - k) of the product of two
\* mantissas, before carrying.
ProdLimb(a, b, k) ==
    LET t(i) == IF k + 1 - i \in 1..NLimbs THEN a[i] * b[k + 1 - i] ELSE 0
    IN  t(1) + t(2) + t(3) + t(4)

\* a * b: 0.0 * inf is nan, 0.0 * (any number) is 0.0; a product beyond the
\* largest float64 is inf.
XMul(a, b) ==
    CASE a.k = "raise" \/ b.k = "raise" -> Raise
      [] a.k = "nan" \/ b.k = "nan" -> NaN
      [] a.k = "inf" \/ b.k = "inf" ->
            IF IsZero(a) \/ IsZero(b) THEN NaN ELSE Inf(a.s * b.s)
      [] IsZero(a) \/ IsZero(b) -> Zero
      [] OTHER ->
            Norm(a.s * b.s,
                 Carry([k \in 1..(2 * NLimbs - 1) |-> ProdLimb(a.m, b.m, k)], 0),
                 a.e + b.e)

\* The largest limb q <= est with q * D <= R.
RECURSIVE FixQuot(_, _, _)
FixQuot(R, D, q) ==
    IF Cmp(PadTo(Times(D, q), NLimbs + 1), R) > 0
    THEN FixQuot(R, D, q - 1) ELSE q

\* The first n limbs of R / D by long division: R of NLimbs + 1 limbs,
\* R < D * Base, the first limb of D at least Base / 2 (so that the
\* estimate from the leading limbs is at most 2 too large).
RECURSIVE DivLimbs(_, _, _)
DivLimbs(R, D, n) ==
    IF n = 0 THEN <<>>
    ELSE LET est == (R[1] * Base + R[2]) \div D[1]
             q   == FixQuot(R, D, IF est > Base - 1 THEN Base - 1 ELSE est)
             rem == Minus(R, PadTo(Times(D, q), NLimbs + 1))
         IN  <<q>> \o DivLimbs(Tail(rem) \o <<0>>, D, n - 1)

\* The quotient of two nonzero numbers.
DivNum(a, b) ==
    LET f == Base \div (b.m[1] + 1)
    IN  Norm(a.s * b.s,
             DivLimbs(PadTo(Times(a.m, f), NLimbs + 1), Times(b.m, f),
                      NLimbs + 2),
             a.e - b.e - (NLimbs + 1))

\* a / b.  A zero divisor: between two Python floats (py) the division raises
\* ZeroDivisionError; with a NumPy array or scalar on either side x / 0 is
\* inf of x's sign and 0 / 0 is nan, with a RuntimeWarning and no exception.
XDiv(a, b, py) ==
    CASE a.k = "raise" \/ b.k = "raise" -> Raise
      [] IsZero(b) /\ py -> Raise
      [] a.k = "nan" \/ b.k = "nan" -> NaN
      [] a.k = "inf" /\ b.k = "inf" -> NaN
      [] IsZero(b) -> IF IsZero(a) THEN NaN ELSE Inf(a.s)
      [] a.k = "inf" -> Inf(a.s * b.s)
      [] b.k = "inf" -> Zero
      [] IsZero(a) -> Zero
      [] OTHER -> DivNum(a, b)

\* seq / n for a limb n > 0, limb by limb; r is the remainder so far.
RECURSIVE ShortDiv(_, _, _)
ShortDiv(seq, n, r) ==
    IF seq = <<>> THEN <<>>
    ELSE LET t == r * Base + seq[1]
         IN  <<t \div n>> \o ShortDiv(Tail(seq), n, t % n)

\* x / n for a number x and a limb n > 0.
XDivInt(x, n) == Norm(x.s, ShortDiv(x.m \o <<0, 0>>, n, 0), x.e - 2)

\* ln 10 = Ln10Hi + Ln10Lo, the first a short number whose multiples are
\* exact; ln 2.
Ln10 == Num(1, <<2, 3025, 8509, 2994>>, -3)

Ln10Hi == Num(1, <<2, 3025, 0, 0>>, -3)

Ln10Lo == Num(1, <<8509, 2994, 456, 8402>>, -5)

Ln2 == Num(1, <<6931, 4718, 559, 9453>>, -4)

\* np.exp overflows to +inf above ln of the largest float64,
\* 709.782712893384, and is 0.0 below -745.1332191019.
ExpOverflowX == Num(1, <<709, 7827, 1289, 3384>>, -3)

ExpUnderflowX == Num(-1, <<745, 1332, 1910, 1941>>, -3)

\* Whether a term no longer changes a sum: it is zero or lies wholly below
\* the last limb of the sum.
Negligible(term, acc) == IsZero(term) \/ term.e < acc.e - NLimbs

\* The Taylor series of e^t, from term n on.
RECURSIVE ExpSeriesX(_, _, _, _)
ExpSeriesX(t, n, term, acc) ==
    IF Negligible(term, acc) \/ n > 60 THEN acc
    ELSE LET next == XDivInt(XMul(term, t), n)
         IN  ExpSeriesX(t, n + 1, next, XAdd(acc, next))

\* np.exp of a number x between the two thresholds: e^x = 10^k * e^t with
\* k whole and t = x - k ln 10 in [0, ln 10).
ExpNum(x) ==
    LET q  == ToInt(XDiv([x EXCEPT !.s = 1], Ln10, FALSE))
        k  == IF x.s > 0 THEN q ELSE -(q + 1)
        kf == FromInt(k)
        t  == XAdd(XAdd(x, XNeg(XMul(kf, Ln10Hi))), XNeg(XMul(kf, Ln10Lo)))
        r  == ExpSeriesX(t, 1, One, One)
        v  == Norm(1, Times(r.m, 10 ^ (k % 4)), r.e + k \div 4)
    IN  IF v.k = "inf" THEN MaxFloat ELSE v

\* np.exp: overflows to +inf (a RuntimeWarning), underflows to 0.0.
XExp(x) ==
    CASE x.k = "raise" -> Raise
      [] x.k = "nan" -> NaN
      [] x.k = "inf" -> IF x.s > 0 THEN Inf(1) ELSE Zero
      [] IsZero(x) -> One
      [] XCmp(x, ExpOverflowX) > 0 -> Inf(1)
      [] XCmp(x, ExpUnderflowX) < 0 -> Zero
      [] OTHER -> ExpNum(x)

\* The series of 2 atanh(y) = 2 (y + y^3/3 + y^5/5 + ...): pw is y^n.
RECURSIVE AtanhSeries(_, _, _, _)
AtanhSeries(y2, n, pw, acc) ==
    IF Negligible(pw, acc) \/ n > 60 THEN XMul(FromInt(2), acc)
    ELSE LET next == XMul(pw, y2)
         IN  AtanhSeries(y2, n + 2, next, XAdd(acc, XDivInt(next, n + 2)))

\* ln(u) for a number u in [0.7, 1.42): 2 atanh((u - 1) / (u + 1)).
LnNear1(u) ==
    LET y == XDiv(XAdd(u, XNeg(One)), XAdd(u, One), FALSE)
    IN  AtanhSeries(XMul(y, y), 1, y, y)

\* np.log of a number x > 0.  Near 1 the series is used as it is; elsewhere
\* x = 10^p * 2^j * u with u in [0.7, 1.42) and ln x = p ln 10 + j ln 2 + ln u.
LnNum(x) ==
    IF XCmp(x, Fin(700)) >= 0 /\ XCmp(x, Fin(1420)) < 0
    THEN LnNear1(x)
    ELSE LET dg == IF x.m[1] < 10 THEN 0 ELSE IF x.m[1] < 100 THEN 1
                   ELSE IF x.m[1] < 1000 THEN 2 ELSE 3
             p  == dg + 4 * (x.e + 3)
             u0 == XDivInt(Num(1, x.m, -3), 10 ^ dg)
             j  == IF XCmp(u0, Fin(1420)) < 0 THEN 0
                   ELSE IF XCmp(u0, Fin(2830)) < 0 THEN 1
                   ELSE IF XCmp(u0, Fin(5660)) < 0 THEN 2 ELSE 3
         IN  XAdd(XAdd(XMul(FromInt(p), Ln10), XMul(FromInt(j), Ln2)),
                  LnNear1(XDivInt(u0, 2 ^ j)))

\* np.log: log(0.0) is -inf, log of a negative is nan (a RuntimeWarning
\* each, no exception).
XLog(x) ==
    CASE x.k = "raise" -> Raise
      [] x.k = "nan" -> NaN
      [] x.k = "inf" -> IF x.s > 0 THEN Inf(1) ELSE NaN
      [] IsZero(x) -> Inf(-1)
      [] x.s < 0 -> NaN
      [] OTHER -> LnNum(x)

\* 2 pi = TwoPiHi + TwoPiLo, pi = PiHi + PiLo and pi/2 = HalfPiHi +
\* HalfPiLo, the first part of each a short number.
TwoPi == Num(1, <<6, 2831, 8530, 7180>>, -3)

TwoPiHi == Num(1, <<6, 2831, 0, 0>>, -3)

TwoPiLo == Num(1, <<8530, 7179, 5864, 7693>>, -5)

PiX == Num(1, <<3, 1415, 9265, 3590>>, -3)

PiHi == Num(1, <<3, 1415, 0, 0>>, -3)

PiLo == Num(1, <<9265, 3589, 7932, 3846>>, -5)

HalfPiHi == Num(1, <<1, 5707, 0, 0>>, -3)

HalfPiLo == Num(1, <<9632, 6794, 8966, 1923>>, -5)

QuarterPi == Num(1, <<7853, 9816, 3397, 4483>>, -4)

ThreeQuarterPi == Num(1, <<2, 3561, 9449, 192>>, -3)

\* The series of cos h (first = 0, from 1) or sin h (first = 1, from h):
\* each term is the one before times -h^2 / ((n + 1)(n + 2)).
RECURSIVE TrigSeries(_, _, _, _)
TrigSeries(h2, n, term, acc) ==
    IF Negligible(term, acc) \/ n > 60 THEN acc
    ELSE LET next == XNeg(XDivInt(XMul(term, h2), (n + 1) * (n + 2)))
         IN  TrigSeries(h2, n + 2, next, XAdd(acc, next))

\* cos and sin of a number |h| <= pi/4.
CosSeries(h) == TrigSeries(XMul(h, h), 0, One, One)

SinSeries(h) == TrigSeries(XMul(h, h), 1, h, h)

\* hi + lo - x, the difference with the short part taken first.
FromConst(hi, lo, x) == XAdd(XAdd(hi, XNeg(x)), lo)

\* cos of a number 0 <= r < 2 pi, folded to [0, pi] and evaluated from the
\* nearest of 0, pi/2 and pi.  No float64 is an odd multiple of pi/2: the
\* cosine is never 0.0.
CosReduced(r) ==
    LET h == IF XCmp(r, PiX) > 0 THEN FromConst(TwoPiHi, TwoPiLo, r) ELSE r
    IN  IF XCmp(h, QuarterPi) <= 0 THEN CosSeries(h)
        ELSE IF XCmp(h, ThreeQuarterPi) >= 0
        THEN XNeg(CosSeries(FromConst(PiHi, PiLo, h)))
        ELSE SinSeries(FromConst(HalfPiHi, HalfPiLo, h))

\* cos of a number x, 0 < x < 10^8: x less the whole multiples of 2 pi.
CosNum(x) ==
    LET kf == FromInt(ToInt(XDiv(x, TwoPi, FALSE)))
        r0 == XAdd(XAdd(x, XNeg(XMul(kf, TwoPiHi))), XNeg(XMul(kf, TwoPiLo)))
        r  == IF r0.s < 0 THEN XAdd(XAdd(r0, TwoPiHi), TwoPiLo)
              ELSE IF XCmp(r0, TwoPi) >= 0
              THEN XAdd(XAdd(r0, XNeg(TwoPiHi)), XNeg(TwoPiLo))
              ELSE r0
    IN  CosReduced(r)

\* np.cos: cos(+-inf) is nan.  The argument of the cosine in w_z,
\* omega * ln(1+z) + delta, is below 10^8 in magnitude for every omega,
\* delta and z that fixed-point integers hold.
XCos(x) ==
    CASE x.k = "raise" -> Raise
      [] x.k \in {"nan", "inf"} -> NaN
      [] IsZero(x) -> One
      [] x.e <= -2 -> CosNum([x EXCEPT !.s = 1])

\* ------------------------------------------------------------------------
\* The scalar model functions
\* ------------------------------------------------------------------------

\* The argument z of w_z and S_z: its value in fixed point, and whether it
\* is a Python float (py) or an element of the NumPy array the figure
\* functions pass.  The other arguments are Python floats.
PyFloat(v) == [py |-> TRUE, v |-> v]

ArrayElem(v) == [py |-> FALSE, v |-> v]

\* A plausible slip: the cosine added to, not multiplied into, the
\* oscillatory term.
w_z_AddCos(z, A, omega, delta, z_tau) ==
    XAdd(XAdd(Fin(-Scale),
              XMul(Fin(A), XExp(XDiv(Fin(-z.v), Fin(z_tau), z.py)))),
         XCos(XAdd(XMul(Fin(omega), XLog(Fin(Scale + z.v))), Fin(delta))))

\* w(z) = -1 + A * exp(-z/z_tau) * cos(omega * ln(1+z) + delta), evaluated
\* left to right as Python does: (A * exp) * cos.
w_z(z, A, omega, delta, z_tau) ==
    XAdd(Fin(-Scale),
         XMul(XMul(Fin(A), XExp(XDiv(Fin(-z.v), Fin(z_tau), z.py))),
              XCos(XAdd(XMul(Fin(omega), XLog(Fin(Scale + z.v))), Fin(delta)))))

\* A plausible slip: a missing parenthesis, exp(z - z_c / Delta_z).
S_z_Precedence(z, z_c, Delta_z) ==
    XDiv(One,
         XAdd(One, XExp(XAdd(Fin(z.v), XNeg(XDiv(Fin(z_c), Fin(Delta_z), z.py))))),
         FALSE)

\* S(z) = 1 / (1 + exp((z - z_c) / Delta_z)).
S_z(z, z_c, Delta_z) ==
    XDiv(One,
         XAdd(One, XExp(XDiv(Fin(z.v - z_c), Fin(Delta_z), z.py))),
         FALSE)

\* The literals of variance_attractor.
valley_center == 2000

valley_width == 3000

base_variance == 150

valley_depth == 120

penalty == 100

tau_lo == 300

tau_hi == 6000

omega_lo == 500

omega_hi == 6000

noise_sd == 10

variance_floor == 10

\* A plausible slip: the valley centred off the optimal curve.
valley_term_OffCentre(R) ==
    LET x == DivFx(R - (valley_center + 500), valley_width)
    IN  ExpFx(-MulFx(x, x))

\* valley_term = exp(-((R - valley_center) / valley_width)**2).
valley_term(R) ==
    LET x == DivFx(R - valley_center, valley_width)
    IN  ExpFx(-MulFx(x, x))

\* A plausible slip: "elif" for the second "if", so one penalty at most.
variance_det_Elif(tau_H0, omega) ==
    LET R == MulFx(tau_H0, omega)
        variance == base_variance - MulFx(valley_depth, valley_term(R))
    IN  IF tau_H0 < tau_lo \/ tau_H0 > tau_hi THEN variance + penalty
        ELSE IF omega < omega_lo \/ omega > omega_hi THEN variance + penalty
        ELSE variance

\* The noise-free component of variance_attractor: the value of `variance`
\* when the noise is drawn.
variance_det(tau_H0, omega) ==
    LET R == MulFx(tau_H0, omega)
        variance == base_variance - MulFx(valley_depth, valley_term(R))
        p1 == IF tau_H0 < tau_lo \/ tau_H0 > tau_hi THEN penalty ELSE 0
        p2 == IF omega < omega_lo \/ omega > omega_hi THEN penalty ELSE 0
    IN  variance + p1 + p2

\* Python's max(a, b): b if b > a, else a.
PyMax(a, b) == IF b > a THEN b ELSE a

\* A plausible slip: the floor dropped.
variance_attractor_NoFloor(tau_H0, omega, randn) ==
    variance_det(tau_H0, omega) + MulFx(noise_sd, randn)

\* variance_attractor(tau_H0, omega), with the value np.random.randn()
\* returns as its third argument.
variance_attractor(tau_H0, omega, randn) ==
    PyMax(variance_floor, variance_det(tau_H0, omega) + MulFx(noise_sd, randn))

\* ------------------------------------------------------------------------
\* Bounds: the sizes the script fixes at 80, 80, 100 and 500 points, and the
\* number of calls an importing program makes.
\* ------------------------------------------------------------------------

\* Points of tau_H0_vals (80 in the script).
NTau == 3

\* Points of omega_vals (80 in the script).
NOmega == 2

\* Points of tau_valley (100 in the script).
NValley == 2

\* Points of the redshift arrays of Figures 1 and 2 (500 in the script).
NZ == 3

\* Calls made by a program that imports the module.
MaxCalls == 3

\* ------------------------------------------------------------------------
\* NumPy: linspace, meshgrid, zeros_like, the global generator
\* ------------------------------------------------------------------------

\* np.linspace(lo, hi, num), indexed from 0.
linspace(lo, hi, num) ==
    [k \in 0..(num - 1) |-> lo + RoundDiv(k * (hi - lo), num - 1)]

tau_H0_vals == linspace(200, 5000, NTau)

omega_vals == linspace(500, 5500, NOmega)

\* TAU, OMEGA = np.meshgrid(tau_H0_vals, omega_vals): 'xy' indexing, one row
\* per omega value and one column per tau_H0 value.
TAU == [r \in DOMAIN omega_vals |-> [c \in DOMAIN tau_H0_vals |-> tau_H0_vals[c]]]

OMEGA == [r \in DOMAIN omega_vals |-> [c \in DOMAIN tau_H0_vals |-> omega_vals[r]]]

\* M.shape of a two-dimensional array.
Shape(M) == <<Cardinality(DOMAIN M), Cardinality(DOMAIN M[0])>>

zeros_like(M) == [r \in DOMAIN M |-> [c \in DOMAIN M[r] |-> 0]]

\* The global generator of np.random is a deterministic stream.  Its state
\* is kept as whether np.random.seed(42) has been called (seeded) and the
\* number of normal draws made since that call, or since the module was
\* loaded (n): the Mersenne twister's state and the cached second value of
\* each polar pair are functions of the two and of the entropy NumPy read
\* when it was imported.
RngStep(st) == [st EXCEPT !.n = @ + 1]

\* The seed of plot_resilience_valley.
seed_value == 42

\* np.random.randn() after np.random.seed(42), in fixed point: the 6400
\* draws of the grid and the 100 of the valley line, in the order drawn
\* (0.4967141530, -0.1382643012, 0.6476885381, 1.5230298564, ...).
Seed42Draws ==
    << 497, -138, 648, 1523, -234, -234, 1579, 767, -469, 543,
       -463, -466, 242, -1913, -1725, -562, -1013, 314, -908, -1412,
       1466, -226, 68, -1425, -544, 111, -1151, 376, -601, -292,
       -602, 1852, -13, -1058, 823, -1221, 209, -1960, -1328, 197,
       738, 171, -116, -301, -1479, -720, -461, 1057, 344, -1763,
       324, -385, -677, 612, 1031, 931, -839, -309, 331, 976,
       -479, -186, -1106, -1196, 813, 1356, -72, 1004, 362, -645,
       361, 1538, -36, 1565, -2620, 822, 87, -299, 92, -1988,
       -220, 357, 1478, -518, -808, -502, 915, 329, -530, 513,
       97, 969, -702, -328, -392, -1464, 296, 261, 5, -235,
       -1415, -421, -343, -802, -161, 404, 1886, 175, 258, -74,
       -1919, -27, 60, 2463, -192, 302, -35, -1169, 1143, 752,
       791, -909, 1403, -1402, 587, 2190, -991, -566, 100, -503,
       -1551, 69, -1062, 474, -919, 1550, -783, -322, 814, -1231,
       227, 1307, -1607, 185, 260, 782, -1237, -1320, 522, 297,
       250, 346, -680, 232, 293, -714, 1866, 474, -1191, 657,
       -975, 787, 1159, -821, 963, 413, 822, 1897, -245, -754,
       -890, -816, -77, 341, 277, 827, 13, 1454, -265, 2720,
       626, -857, -1071, 482, -223, 714, 473, -73, -847, -1515,
       -447, 856, 214, -1246, 173, 385, -884, 154, 58, -1143,
       358, 561, 1083, 1054, -1378, -938, 515, 514, 515, 3853,
       571, 1136, 954, 651, -315, 759, -773, -237, -485, 82,
       2315, -1867, 686, -1613, -472, 1089, 64, -1078, -715, 680,
       -730, 216, 46, -652, 2144, 634, -2025, 186, -662, 852,
       -793, -115, 505, 866, -1200, -335, -475, -653, 1765, 405,
       -1261, 918, 2122, 1032, -1519, -484, 1267, -708, 444, 775,
       -927, -60, -3241, -1024, -253, -1248, 1632, -1430, -440, 131,
       1441, -1436, 1163, 10, -982, 462, 199, -600, 70, -385,
       114, 662, 1586, -1238, 2133, -1952, -152, 588, 281, -623,
       -208, -493, -589, 850, 357, -693, 900, 307, 813, 630,
       -829, -560, 747, 610, -21, 117, 1278, -592, 547, -202,
       -218, 1099, 825, 814, 1305, 21, 682, -310, 324, -130,
       97, 595, -818, 2092, -1006, -1214, 1158, 792, 624, 628,
       -12, -897, 76, -677, 975, -147, -825, -321, 413, -564,
       -822, 244, 245, -507, -471, 232, -1448, -1407, -718, -213,
       311, 1475, 858, -160, -19, -1003, -19, -289, 323, -827,
       519, 1533, -109, 402, 690, -401, 224, 13, 98, -773,
       25, 498, 1451, 959, 2153, -767, 872, 183, 2190, -808,
       -840, -599, -2124, -526, -759, 150, 342, 1876, 950, -577,
       -898, 492, -1320, 1831, 1179, -469, -1713, 1354, -115, 1238,
       -1594, -599, 5, 47, -450, 623, -1068, -142, 120, 514,
       712, -1125, -1534, 1278, 332, -748, 1551, 116, 1179, 68,
       2061, 1755, -249, 972, 645, 1369, -965, 686, 1058, -1759,
       -1183, -2039, -269, 718, 1502, 74, 1629, -1380, -1703, -56,
       384, -33, -2067, -89, -1304, 670, 367, -940, -514, -1059,
       -63, 955, -986, 504, -530, -793, -107, -1035, -554, -1198,
       1965, 35, -700, 214, -112, -221, 614, 758, -531, -576,
       -275, -2302, -1515, 1367, 1645, -249, 577, 311, 3079, 1120,
       -128, -956, -1606, 203, -756, -1422, -647, -1082, 1687, 882,
       -8, 1480, 77, -861, 1523, 539, -1037, -190, -876, -1383,
       926, 1909, -1399, 563, -651, -487, -592, -864, 49, -831,
       270, -50, -239, -908, -577, 755, 501, -978, 99, 751,
       -1669, 543, -663, 571, -763, -1805, -1628, 48, 260, -904,
       639, -1662, -66, -1211, -652, 47, -860, -385, 1006, -577,
       836, -1130, 530, 1442, -2472, -797, 577, -203, 371, -604,
       87, -156, 1168, 254, 338, -412, -488, -433, 394, -421,
       290, 2075, 871, -326, 1201, -408, -2038, -1008, -1871, -352,
       18, 1676, 327, -219, 829, -2211, 236, 771, -1479, 1144,
       338, -415, 633, 2271, 182, 248, -459, -850, 830, -856,
       72, -478, 479, 334, 1038, -510, -270, -979, -444, 377,
       757, -922, 870, 1356, 413, 1877, -774, -1245, -1779, 1496,
       654, -56, 280, -1125, 2446, 129, 109, 726, 481, 224,
       -790, 471, 1882, 1345, 1593, -511, -990, -126, 56, 1094,
       -1692, 1530, -158, -427, -1012, -1655, 823, 73, -1290, -1295,
       -336, 1669, -260, -1503, -246, -273, -2697, -54, -231, 696,
       1849, 1127, -269, -1107, 2573, 59, 14, -24, 198, -144,
       -574, -547, -33, -543, -713, 106, -255, 1504, -2651, 1092,
       1246, -2073, -343, -371, -1408, -778, -1111, 1752, 936, 1272,
       722, -1129, -525, 489, -1222, 713, -240, -375, 711, 444,
       -361, 1159, -1081, 616, 593, -310, 326, -1251, 924, -185,
       -523, 1049, -704, -1408, -1557, 606, -1280, 1755, -2082, 1696,
       211, -97, -545, 399, -38, 1103, 114, 150, -364, -57,
       308, -1710, -1348, 743, 171, -184, 18, 348, -540, -778,
       196, -978, 408, -1703, 1029, 473, 256, 983, 1665, 1014,
       -1841, -1280, -625, 26, 518, -726, 187, -755, -612, -1407,
       -923, -1352, -976, 1054, -949, 2632, 493, 185, -858, 700,
       -576, 122, 2560, -96, 1149, -703, -35, 1771, -627, 1812,
       708, -562, 632, 973, 622, -1570, -727, -248, -74, 621,
       178, -1335, 380, 611, 560, 1081, 834, 459, -70, -1661,
       430, 208, 272, -1277, -1081, 1053, -40, 682, 28, 30,
       938, -516, 96, -462, -434, -309, 222, -479, 1256, -895,
       -187, -440, 1447, 197, 1032, -1486, 267, 890, 82, 1065,
       -517, 1409, 2299, -363, -446, 1453, 1580, -523, -420, -282,
       -1344, -919, -1004, -768, -35, 234, 1551, -998, 984, -214,
       -49, 675, -1123, 382, 166, 492, 289, 2455, -638, -531,
       -623, -555, -637, 1189, 1421, -571, -832, 471, -552, 633,
       203, -1516, 1548, 1796, -613, -388, 286, 334, 659, 2010,
       -177, -798, -1379, -731, -33, 1795, -518, 224, -16, 1188,
       2527, -531, -489, 1044, 682, 1847, 584, -359, 591, 1109,
       820, 507, 1067, 1169, 1382, 649, -167, 147, 1207, -817,
       369, -393, 29, 1278, 191, 46, -1360, 746, 645, 2163,
       -308, 219, 249, 1577, -95, 279, 608, 187, -446, 194,
       1074, -1027, 133, -700, 1195, -1523, -559, 377, 1566, -66,
       -555, 1881, -1448, -2199, 440, -502, -1021, 708, 244, -564,
       -1280, 872, 650, -99, 1847, -1070, -1526, -692, -46, 243,
       -241, 352, -1252, 1444, -82, 1117, 343, 457, 570, 448,
       643, 1329, 197, 709, -90, 1440, -676, 1801, -40, -1431,
       128, -681, 841, -653, -446, -1890, -452, -2424, -1584, 760,
       786, 425, -967, -48, -4, -1158, 1503, 877, -221, 27,
       208, -2042, -247, -682, -1002, -281, 1798, 641, -571, 573,
       1399, 925, 60, -647, 698, 393, 895, 635, 1050, -535,
       1317, 198, 2075, -689, 1736, 198, -651, -484, -320, 424,
       523, -574, -24, 2142, 1728, 436, 38, 120, 614, -1023,
       -257, -1669, 399, 647, -483, 1574, -1226, -1464, 224, 1047,
       1684, -459, 1079, -39, -173, 884, 652, -1576, 1477, 1380,
       -626, 396, 494, 261, -550, -672, -26, 1173, 544, -371,
       772, -2849, 1149, -1740, -362, -1120, -1295, 1161, -468, 347,
       -47, 477, 77, -1283, 996, -494, -1557, -428, 1501, 850,
       -349, -349, -322, 2077, 382, 430, 1030, 239, -259, -196,
       -72, -37, 728, 52, 733, -81, 79, -1998, 916, 346,
       998, -2896, 2088, -140, 1108, -1040, 613, -1053, -624, 1914,
       -191, 217, 870, 496, 150, 365, 2403, -58, 201, 1051,
       1106, 1187, 639, -1143, 1633, -1146, 303, -754, -64, 329,
       321, 422, 1614, 454, -244, 964, 1189, -1228, 597, 701,
       -298, 1376, -150, 126, -173, 16, -1096, -1440, 1595, -847,
       -991, -2153, -639, -1323, 1642, 1010, -688, 2252, 982, -325,
       -2499, 2291, -1390, -1645, 1023, 2440, 1384, 564, 595, 853,
       759, 281, 104, -63, -754, -281, -1693, -98, -989, -1104,
       180, 1392, 918, -1571, -990, 941, -982, -225, 550, -968,
       105, -1334, -601, 320, -1593, 440, -20, 552, 224, 1364,
       125, -429, 122, 543, 49, 41, -702, -663, -1403, 1750,
       -1244, -693, -718, 895, -295, 1248, -673, 279, -835, 2145,
       -1188, 310, 634, 414, -185, -130, 44, -147, 964, 2211,
       -557, -1370, -88, 2580, -804, 1639, 1678, -554, 569, 1628,
       -379, -204, -582, -1015, -649, -1224, 34, -770, 234, -1556,
       331, 834, -1994, 374, 1228, -1210, 1673, 419, -705, -56,
       558, 76, 539, -921, 169, -1414, -111, -904, -736, 1236,
       1091, 609, -1092, -316, 1213, 142, 2319, 393, 192, -309,
       134, -152, 708, 957, -786, -1331, -1836, 508, -1103, -2153,
       389, 2493, -6, 838, 82, -99, 919, -290, 267, 322,
       -668, 992, -175, -756, 537, -898, 28, -9, 1086, 475,
       -25, 818, 1390, 558, 10, -1312, -1065, -305, -610, -187,
       57, 530, -70, 487, 64, -1975, -939, -144, -1210, 600,
       1531, 1219, -213, 1491, 149, -337, -613, -302, -388, 170,
       161, 3, 437, 1191, 950, -1485, -2554, 934, -1367, -225,
       -1170, -1802, 541, 759, -577, -2591, -546, 392, -1479, 183,
       -15, 579, 120, -973, 1197, -159, -27, -933, -443, -885,
       -173, 1712, -1372, -1614, 1471, -209, -669, 1040, -606, 1826,
       678, -488, 2157, -606, 742, 299, 1302, 1562, 32, -753,
       460, -678, 2013, 137, -365, 185, -1347, -972, 1200, -657,
       -1047, 537, 1186, 719, 996, -757, -1422, 1501, -323, -251,
       1328, 556, 456, 2165, -644, 928, 57, 269, 1528, 508,
       538, 1073, -365, -839, -1045, -1966, 2056, -1103, -221, -277,
       307, 816, 860, -583, -167, 283, -249, 1607, 491, 735,
       663, 1173, 181, -1297, 400, -651, -529, 586, 1238, 21,
       309, 1702, 241, 2602, 566, -1761, 753, 381, 1290, 673,
       -138, -1224, -209, -851, -581, 589, 1670, 395, -1196, 445,
       1197, -610, -134, 15, -785, 648, -121, 420, -887, -437,
       722, -373, 1727, -400, 225, 933, -1418, -1761, -1526, 1263,
       -552, 2558, -564, 185, 1542, 2006, 2062, 1208, 1024, 593,
       778, -551, -818, -3, -170, -453, 696, 955, 88, 1478,
       -1142, -194, -717, -1867, -83, -122, 1513, 631, -1024, 1854,
       1221, 582, -226, -959, -372, 1089, 1885, 1543, -489, -1120,
       141, -1768, 323, -148, -466, -1595, 514, -533, -1170, -2872,
       -28, 1772, 1661, -457, -602, 469, -998, 302, 766, 1227,
       -100, -204, -878, -827, -226, 367, 914, -803, 1493, -271,
       -21, -747, -2424, 884, 737, -281, 67, 516, -1563, -529,
       794, -1254, 294, -1357, 466, -36, -1615, 1165, -735, -810,
       201, 1149, -1016, 62, 429, 693, 176, -367, -828, 86,
       -1072, -2921, 437, 904, -2363, -1010, 619, 2057, 21, -728,
       -183, 1375, -646, -799, -483, -953, 123, 1625, 323, -252,
       -292, -1563, 883, -78, -180, 3193, 299, -752, -426, 1148,
       113, -1438, 919, -668, 1873, 1080, -447, 1281, 68, 853,
       485, -846, -644, 1030, -335, -404, -955, 424, 2063, -1068,
       24, 1412, -80, 452, -1062, 428, -187, 986, 1187, 2590,
       580, 326, 194, -353, 338, -295, 168, 1318, -1007, 1140,
       1317, -118, -2122, -608, 1297, -23, -999, -505, 841, 547,
       -239, -367, -392, -922, 1615, -322, 1217, 1521, 998, -432,
       404, -24, -904, 324, -1179, 1188, -465, 201, 283, -259,
       587, -475, 871, -1346, 126, 1939, -1000, -678, 514, 180,
       351, 489, 635, 1110, 410, -241, 673, 1900, -133, -975,
       1107, -120, -2173, 847, -535, -91, 332, 190, 709, -435,
       513, -260, 739, 615, -935, 1086, -536, 808, 367, 1838,
       -223, -349, -19, -303, 800, -1616, -1054, -1068, 950, 1711,
       -104, -169, 70, 1162, -927, 238, 975, 501, 190, 1001,
       -2703, 678, -654, -1831, 511, 1374, -137, 953, 1612, 1315,
       1640, 742, 75, -1602, -246, -843, 2171, -176, 123, 551,
       44, 1695, -623, 195, -742, -1320, -612, -37, -429, -692,
       -1406, -83, -1505, 760, 82, -1458, -309, -752, 319, 1340,
       -1875, 115, -160, 671, 213, -752, -319, -796, 1076, 21,
       1901, -61, -708, -1514, -1803, -1584, 267, 509, -1581, 895,
       -483, 147, 1612, 897, -269, -891, -2152, -719, -211, -987,
       -131, 77, -225, -650, 169, 442, -1090, 1411, -99, 19,
       708, 233, 953, 287, -612, 362, -1144, 109, -33, -208,
       -129, -1882, -549, 93, 160, -1028, 1266, -866, 969, 427,
       -646, 1775, -1194, 919, 1001, -671, 1392, -250, 289, 260,
       -134, 811, 793, -1749, 1304, -1662, 1033, 1127, -1091, -411,
       -1106, -215, -308, 780, 1310, 1396, -562, -209, -1683, -806,
       965, 1616, -1234, -592, -26, 280, -810, 424, -474, -14,
       546, 6, -436, -110, -88, -370, -259, 1599, 561, -295,
       697, -334, 1173, 370, -107, 448, -1571, -1127, -1194, 143,
       1733, 2231, 638, 501, -1801, -543, -788, -621, -168, -472,
       -1979, 748, -1073, 239, 2074, -919, -2530, -286, 1101, 1958,
       -1230, 497, -465, -106, 2644, -1503, 254, 468, 1086, 98,
       308, -392, 269, -343, 622, -370, 377, -29, 1126, -51,
       -1773, 1262, -906, -654, -596, 1374, -2136, 3138, 1056, 223,
       -55, 286, 521, 645, 556, 90, -197, -151, -195, 1134,
       594, -2940, 656, 195, -19, -389, 1124, 948, -773, 407,
       -972, -1380, -627, 862, 953, 513, 725, 516, -641, 432,
       800, 754, 1189, 708, 351, 1070, -27, -882, -163, -745,
       -675, -145, -792, -308, -1894, 213, 1, -817, 659, 938,
       -1608, -763, -769, -940, 829, -194, -265, -2004, 635, -1239,
       60, 277, 1361, -1309, -3020, 184, 1801, 1239, 210, -492,
       807, -974, 476, 505, 1060, 2760, 392, -509, -26, -1769,
       -695, -409, -524, 152, -822, 1121, 0, -9, -328, 155,
       825, -867, -658, -304, -1346, -819, -476, 874, 263, 194,
       851, -137, 390, -103, 265, -583, -2439, -134, 1423, 926,
       965, 1236, 89, 197, -618, -316, 616, 1204, -139, -450,
       1, 601, -1444, -2296, -551, -1221, -508, -148, -453, 1452,
       327, 300, 622, -1139, 1039, -76, 670, -1072, -1554, 818,
       376, -902, -870, 1125, -1189, 1643, -901, 638, -329, 603,
       -544, -163, 41, -1002, 741, -513, -229, -994, -2562, -191,
       2413, 785, -19, -263, 22, 547, -1181, 1114, 715, 718,
       438, 20, 673, 592, -354, -574, 102, 1549, -1239, -1468,
       165, 51, 173, 244, -223, 1490, -1601, -828, -103, -1643,
       -176, 1661, 21, 231, -1260, -616, -375, -318, 1282, 558,
       -1111, 247, 498, 1140, 1581, -1015, -811, -1258, -234, 466,
       987, -76, -320, 152, -835, 2090, -1608, 185, 2024, 7,
       -190, -357, -180, 1373, -2212, 1533, -1424, -267, -429, 589,
       -1598, 462, 2024, -1363, 190, -662, 426, 19, -641, 488,
       1804, -191, 720, -1293, -956, 472, 1484, 356, -313, -1,
       -1250, 605, 882, -452, -470, 266, -437, -66, 2100, -247,
       -358, -648, 744, -181, -649, 1321, 1420, -600, -1867, 1008,
       -685, 791, -1970, 893, -1211, 731, 14, -954, -407, 686,
       106, 584, 1976, -1564, 1617, 104, -899, -1330, -189, 922,
       -128, 1511, -1451, -12, -1252, 364, 887, -421, -2604, 199,
       437, 404, 1236, -1071, 680, 1193, -1779, 320, -504, -82,
       348, -487, -676, 34, -1087, -1086, 679, -1149, 666, 463,
       -1726, -678, 1194, -981, -464, 462, 783, -252, -598, 1422,
       1739, 979, 85, -808, -830, 523, 418, 1402, 650, -1503,
       1052, -998, -384, 250, 1996, 3110, 607, -183, 535, 888,
       -321, 1795, 230, 498, 666, 422, 839, -617, -558, -1100,
       440, 779, 458, 1674, -6, 669, -1092, -387, 696, 849,
       -294, -72, -1518, -357, 890, 575, 501, 50, 7, -660,
       699, 421, 492, -526, -2153, 1097, -479, -863, 693, -392,
       1060, 617, 684, -1366, 1212, 261, -369, 143, -1776, 409,
       -1029, -1353, -1522, 1113, -629, 1534, -536, -1707, -1117, 1236,
       -156, -548, 160, 502, 1117, 1448, -360, -1326, -413, 260,
       -964, -957, 344, -49, 33, -758, -230, -924, 890, 1035,
       -1846, -930, -1497, -650, -83, -1450, -922, -1004, 207, 69,
       -722, 177, -547, -272, 1673, 1340, -1300, 830, 811, -1148,
       819, 1538, -1123, -918, 1018, 271, 551, 341, 391, -1326,
       1047, 1170, -229, -43, -1531, 514, 572, -62, 1124, -334,
       565, -1020, -24, -174, 225, -370, -131, 826, -437, -1607,
       1750, 1381, -1292, 690, -503, 263, 294, -234, -784, -691,
       -916, -832, -67, -716, 682, 1487, -580, 239, 500, 472,
       76, 743, 482, -1238, 869, 887, -763, 38, 683, -209,
       1073, 2364, -786, -1381, 304, 722, -231, 1453, -1339, 693,
       -606, 1719, 1993, -767, -550, 860, -387, -45, 25, -1920,
       -14, -690, -493, 1444, -1257, 813, -279, -280, 790, 340,
       571, 968, -331, -612, -1085, -825, 2949, 1245, -1351, -1322,
       482, 547, 549, -255, -125, 328, 86, -2219, -230, -851,
       175, 2985, 367, -314, 922, 483, 420, 607, 2057, -1131,
       474, -926, 556, -919, -417, -295, 976, 918, -1246, 55,
       -710, -1259, -217, -308, 2427, 433, -1378, -565, 1021, 2088,
       -1586, -1880, 1871, 390, -868, 535, -2636, 3, 328, 924,
       -1014, 86, -925, 255, -895, -408, -996, 651, 858, -235,
       38, -1449, -300, -50, 2621, -1112, 1464, 997, 281, 1759,
       372, 389, -53, 1224, 1096, -626, -1319, -203, -800, -64,
       1237, -457, -43, 58, 848, -2247, -607, 211, 1200, -492,
       -1877, 620, -635, -1190, -624, -185, -605, -2206, 897, 1275,
       652, -1138, -201, -7, 599, 668, -734, 82, 457, 1456,
       705, 789, 84, 1410, 410, -861, 1403, 698, -443, -479,
       297, 463, 197, 311, 1700, 1072, 191, 941, -1033, 398,
       1809, -218, -848, -652, -1090, -785, -371, -1406, 16, 902,
       -908, 1519, 511, 1031, -658, 855, -1092, 890, 172, 553,
       -1176, -895, 597, -948, 463, -1367, 848, -1233, 552, 626,
       -697, 582, 260, -539, -1009, -1963, 350, -1565, 95, -263,
       679, -302, -329, 732, 335, 316, 469, -1536, 757, 612,
       -1017, -244, -39, -134, 334, 1431, 1082, -1312, 622, 1329,
       387, 1091, 2012, 1024, 249, 1045, 145, 24, -351, 1563,
       -818, 1532, 500, -1399, 368, -2100, 626, 885, -592, 124,
       1954, -506, -1059, 1482, 1963, 4, 1011, 1341, -742, -485,
       1231, 1685, 563, -880, 1987, -531, -335, 342, 1554, 854,
       415, 463, 44, 558, -2530, -297, 241, -1151, 386, -204,
       1755, 1573, -466, -151, -74, -452, 195, -758, -1131, 623,
       630, -804, 895, -632, 253, 820, -34, 455, -516, -196,
       -206, -747, -177, -1549, -491, -285, -256, -241, -62, 479,
       875, -650, -1203, -1042, -487, -352, -770, -1296, -456, 181,
       595, -557, -413, -927, -31, -848, 573, -1786, -360, 301,
       184, 2693, 350, -1004, -95, -1776, -81, -833, 915, -550,
       -117, -636, 1739, -321, 1833, 814, 482, 369, 394, -1928,
       -279, 845, -49, -1405, -52, 1704, 1247, -62, 951, -367,
       -1704, -924, 1563, -274, -243, -300, 1904, 1626, 2219, -159,
       296, -1517, 1477, -1168, 217, -1097, -589, -837, -608, -539,
       -548, 833, -1105, 221, 1218, -513, -718, -231, 1180, 194,
       -531, 484, -1102, 681, 409, -308, -839, -887, 535, 1229,
       -637, 458, -2087, -585, -31, -910, -937, -668, 292, -187,
       -2238, -2121, -607, 458, -2748, -500, -526, 1388, -385, 383,
       141, -2131, 768, 215, 508, 3926, -2084, 1725, -287, 287,
       -46, -424, -570, 330, -1517, 751, -416, -1130, -450, 1257,
       -535, 358, -731, 758, 686, 1849, -176, 669, 98, 1296,
       -719, 745, -195, -64, 92, 252, -116, 215, 1578, 985,
       869, -456, -889, 955, 876, 1473, -604, -230, -1639, -392,
       997, -466, 640, -191, 324, -1148, 85, -2991, -187, -1630,
       1206, 777, 467, 1521, -949, 1747, 932, -237, 1136, -1106,
       -825, -609, -529, -1057, 1223, -259, 353, -570, -1821, 270,
       -1912, -69, -1368, 1987, 911, 106, 1264, -846, 543, 200,
       264, 1272, 732, 289, -1655, -960, -123, 93, -1130, 2412,
       1516, 602, 72, -212, -952, 77, 258, -1242, 334, -155,
       -1908, -860, -414, 1888, 557, -1335, 486, -1547, 1083, -471,
       -94, 1326, -1287, -1397, -584, 1038, -1519, -2832, -451, 552,
       1200, -463, -411, 1154, -1870, -389, 190, 449, -510, 34,
       -2488, -658, 454, -982, 59, 447, -343, 170, -963, -207,
       610, 157, -587, 224, 715, -2050, 1159, -336, 425, 1197,
       -1372, -709, -289, -784, 1735, -857, -556, 204, -1202, -396,
       317, -333, -93, -529, -1514, 322, 1755, 18, 225, 693,
       -1269, 1703, 202, 1632, -733, 1818, 775, 553, 234, -249,
       1201, 140, -1967, -1117, -186, 310, -57, 1219, -1951, 144,
       -1818, 760, -94, 420, -864, 1279, 1042, 584, -130, 580,
       -707, 856, 1649, 1071, -730, 361, -1293, 572, 451, -1870,
       -1162, -283, -301, -1209, 389, 251, -194, -756, 1049, 1655,
       -484, -612, 491, -358, -139, 740, -1909, 1318, 73, -411,
       -89, -38, -1731, 1495, 41, 443, 952, -1021, 473, -268,
       847, -2127, -99, -603, 432, 470, -708, -712, -111, -897,
       842, -369, -2907, -375, -1039, -1631, -1237, 109, 1329, 313,
       -607, 456, -459, -695, -1154, -1752, -390, 158, -97, -416,
       -946, 608, -1317, 776, -1002, -752, -1467, -501, 975, 516,
       978, 522, -1104, -331, -780, 1331, -1197, 894, 893, 1830,
       -410, 712, 2282, -618, -1535, -1880, 713, -1883, -372, 437,
       185, 425, 222, 1279, -952, -677, -773, 830, 900, 451,
       1183, -1178, 1667, 1523, 736, 1782, -1657, -524, -735, 721,
       -1050, 757, 1371, 695, 284, -988, -847, 1250, 779, -39,
       -418, -2026, -1071, 1911, -1280, 189, 1007, -1255, 185, 938,
       12, 2868, -1669, 1059, -173, 772, 441, -733, 229, -1858,
       603, 298, 639, 1058, 368, 148, -881, -712, 1187, 1436,
       -238, 46, -905, 1173, 665, 1941, -878, -378, 231, 646,
       -216, -873, 881, 721, -916, 1355, 1170, 134, 80, 554,
       -862, 30, -2152, 876, -1561, 1503, -330, -212, -628, -288,
       1419, -2488, 1277, 338, -1207, -1075, 1676, -946, -1153, 1137,
       339, -938, 217, -1026, 1101, 1061, 532, 362, 1761, 0,
       -1182, 449, 2086, -1015, -361, 416, -54, -982, 1122, 2320,
       196, -904, -1549, 258, 1104, 475, -2, -589, -1092, 835,
       914, -1546, 1590, 574, 1400, -1342, -1366, -149, 503, 1796,
       706, -243, -1026, 1230, -965, 1628, -284, 1591, 679, -137,
       -519, -341, 428, 77, -594, -166, 79, -2129, 458, -980,
       -1153, -1687, -1794, -1355, -709, 1953, -526, 178, 400, 131,
       -77, -1195, 1451, 1807, -1683, -1024, -280, -965, 506, -728,
       2165, 1191, 213, 1027, 1106, -564, -816, 78, 862, 139,
       -1577, -803, -74, -76, 1973, -1386, 506, 1489, 2271, -404,
       491, 570, 195, -99, 436, -2532, 682, 126, -222, 2047,
       -675, -403, 1992, -832, -550, -147, 841, 208, -1293, -532,
       -607, -77, 426, 418, -1776, 1064, 253, 1385, 444, 1101,
       467, 1346, 522, -98, 2272, 889, 574, -1276, -1288, 293,
       146, -614, 141, 1589, 695, -1141, -112, -805, -388, -414,
       -478, -1255, -128, -561, -2929, 2053, 1089, -376, 19, -1172,
       1696, 1897, 157, 1024, 175, -1337, -412, 132, -455, -219,
       -91, -81, 52, -1061, -717, -1285, 978, -2106, 1154, 1386,
       -302, -2603, -361, -64, -1011, -515, 1530, 665, -925, -1598,
       -327, -213, 496, -535, 511, 1935, 816, -48, -183, -357,
       1181, -627, 45, 51, -502, -1372, 323, -61, 500, -534,
       1221, -877, 1712, -1748, 435, 475, -796, 424, 1280, -2217,
       503, -2493, -966, 1629, -582, -1174, -198, 2068, -1832, -1051,
       1497, 1858, -103, -1239, 2096, 1594, 679, -812, -49, -160,
       331, 1451, 879, -1077, 1376, 313, 687, 1467, -1112, -36,
       -531, -1568, 347, 2512, -1840, -32, 641, 123, -113, -1299,
       233, -757, -2190, 1195, 958, 52, 229, 1074, 224, 904,
       -297, 1312, 321, 194, -1270, 287, -832, -638, -815, -1066,
       2125, 1331, 1920, -1223, 71, -1294, -696, -918, 1240, -396,
       1068, 604, 2304, -1479, 1259, 1146, -973, 1007, 336, -227,
       -824, -719, 2050, 1, 782, -791, -780, 1082, -1350, -415,
       34, 111, -179, 396, 693, 735, -986, -284, 1195, 895,
       -1373, 351, -1978, 47, 1898, -948, -834, 764, -1543, -633,
       596, -634, -236, 744, 422, 267, -339, 370, -124, 458,
       -497, -183, -990, -35, -811, -1114, 259, 213, 783, -431,
       408, 551, 445, -826, 149, 364, 7, -2086, 160, 2213,
       -360, -728, 373, 312, 1193, -1258, 731, 590, -142, 339,
       1029, 872, -1143, 820, -65, 73, 73, -150, 1192, -84,
       -1120, -394, 179, 1229, 603, -851, 2485, 265, 1275, -152,
       533, 839, 1218, 1057, 872, -315, -572, 333, 933, -223,
       1065, 1453, -916, -837, -140, 308, -525, 1352, 424, 39,
       -1436, -1316, 281, -2133, 1013, -158, 3243, 2308, -181, -106,
       996, 1703, -1638, -1786, -622, 583, 497, 1070, -1200, -2316,
       858, -828, -2018, 145, 793, -122, -458, -159, -371, -1348,
       -715, 521, 322, 168, -995, -182, -2177, 178, 1429, -1474,
       -586, 329, 1253, -448, -692, -1969, 103, 2042, 277, -22,
       322, -11, -813, 823, 226, 18, -975, 1304, 665, -553,
       1002, -498, -782, -760, -1771, 472, -1831, -1228, -2076, -86,
       -150, -327, -1043, -1172, 464, -551, 316, -885, 181, 1303,
       586, -412, 257, -241, 8, -326, -164, 212, -993, -1016,
       -1389, -1600, -1217, 159, -893, 514, 35, -1969, 655, 811,
       -994, 420, -856, 98, -1264, -1793, -383, -124, -398, -1184,
       -400, 269, -45, 183, -670, 1172, -1176, 488, 1182, 481,
       -203, -528, 1036, -1423, -970, -398, 1238, 380, -968, -310,
       -614, -710, 979, -1372, 1609, 828, 1091, -463, -150, -1433,
       -525, 494, 1296, -1107, -366, -151, -1396, 591, -724, -195,
       -452, -789, -7, -216, -372, -728, 320, 1654, 140, 996,
       -1390, 158, -1097, -1477, -739, 1192, 950, 243, -1533, -196,
       302, 176, -1844, -890, -64, 536, -2196, -162, 143, 850,
       693, 583, -800, -1908, -393, 1002, 1393, 711, 429, 380,
       -556, -130, 1669, -943, 1615, -322, 1325, -1407, 586, -737,
       -1415, 219, 1009, -845, -1499, -92, -87, 548, 950, -59,
       1856, 224, -346, -1612, -263, -336, 960, 462, -1179, 172,
       672, 1528, 888, 761, 60, 388, 1250, -1333, -349, -773,
       379, 1230, -597, -2390, -412, 913, 538, 428, -280, -1279,
       515, -834, 2184, 571, -581, -611, -93, -240, 1117, 186,
       -732, 1890, 49, 769, -608, 363, 311, -1890, 2015, 1291,
       -397, -1102, 348, 87, 356, 192, 506, 1447, 568, -1050,
       1363, 1641, 3152, -1123, 243, -2082, 553, -548, 1923, -775,
       -1689, -471, -1975, 751, -2065, 28, -2078, -320, 1643, 361,
       -863, -31, 18, 473, -1367, 593, -2704, -630, -488, 633,
       23, -1406, -985, 199, -79, -579, -481, 696, -518, -88,
       2170, -1424, -1852, 784, -679, -318, -781, -260, 1599, 802,
       862, -1416, -1151, -2839, -809, 957, 517, -222, -22, -689,
       205, 766, -1616, 300, 932, -415, 701, 2815, -104, 393,
       -738, 181, 460, 195, -1020, 206, 1462, 449, 962, -237,
       750, 279, -951, 319, -992, -633, 189, 297, -1189, 1054,
       572, -705, -1538, -145, -446, 113, -363, -2007, -388, -306,
       634, -698, 1679, -1912, 1311, -224, 860, 80, 1140, -387,
       -1099, 1421, -113, 222, 1235, -1032, 595, -590, -132, 72,
       -1500, -779, 1351, 886, -63, 243, -294, 1357, -200, 232,
       1146, -777, 1559, -1530, 1630, -373, -243, -1890, -455, -1040,
       -608, -137, 958, 208, 308, -1096, -881, 1799, -735, 1656,
       -243, 2, 1070, 1272, -111, -388, -56, 338, 891, 4,
       619, 1638, 381, 312, -1519, -2631, 388, -95, -515, 244,
       -60, 1128, 86, -747, 990, -217, 527, -477, -650, 84,
       13, 480, -269, -1836, -433, 794, -297, -246, 986, -712,
       -1543, -161, -484, -966, -175, 492, -9, 307, 1813, -343,
       278, -509, -846, -585, -479, 359, 2349, -716, -417, -63,
       396, 264, 1284, -2426, -2387, -496, 1097, -1566, -3008, 571,
       244, -1090, -986, -970, 111, -626, 494, -2855, -857, -1126,
       -256, -538, 798, -1859, 45, 558, 1857, -482, 324, -1804,
       -2392, 845, -6, 1179, -1373, 520, 1869, 420, 277, 9,
       -1571, 1356, -611, 504, -1563, -1179, 1435, -347, 1453, -78,
       -1842, 892, -590, 699, 25, -1543, 164, 2196, 493, -58,
       1075, 211, 210, -1092, 234, 1035, -836, 1424, -92, -888,
       998, -287, 760, -292, -60, 494, 291, -1996, -1121, 929,
       -132, -524, -1359, -1080, -2022, -101, -598, -967, -68, 364,
       2093, -1512, 1159, 973, -779, 203, -458, 186, 1509, 606,
       509, -430, -1484, -208, 1207, -1527, -1055, 126, -985, -793,
       -424, -1366, -974, 703, -1307, -1598, -630, 732, -197, -465,
       44, -1746, 495, 383, -409, 1006, -1127, 1128, 154, -337,
       -20, -107, 1220, -1077, -763, 1036, -596, 901, 1699, -402,
       681, -1154, 755, 199, 473, -646, -1661, 503, -2063, -317,
       941, 192, 1948, 1025, -654, 27, -47, -1582, -940, -561,
       -2036, 47, -249, -1673, 404, 716, 227, -324, 591, 680,
       307, -825, 277, 1195, -597, 2098, -526, 32, -672, 223,
       -1742, -546, -1092, 135, 994, 646, -2372, 2042, 295, -776,
       157, 176, -667, 198, -607, -404, -686, -1433, 146, 585,
       515, 820, 324, -533, 840, -1358, -901, -964, 1080, 943,
       487, 1072, -879, 349, -125, 847, -115, -385, 541, 876,
       -668, -61, -1058, -2498, 200, 609, 262, -1950, -351, -2218,
       1370, -1086, 1255, 946, -901, -1133, 350, -844, 102, -483,
       -1781, -2230, 227, -562, -553, 696, 1173, -273, -341, 500,
       -1357, 223, 552, 680, -1937, -761, -878, 100, 481, 1497,
       -495, -498, 1150, 297, 1268, 289, -1157, -1333, -1552, 662,
       1189, 1849, 843, 1163, -580, -1156, 850, 418, 107, 387,
       323, 1284, 1295, 544, 846, 514, -461, 757, -1394, 1054,
       -1195, 286, -845, 553, -34, -1595, 421, -578, 881, 1,
       395, -958, -589, -459, 857, 1677, -805, 1077, -2170, -1194,
       -959, -1353, -1584, 413, -214, 379, 690, 266, 658, -70,
       -1187, 1058, -589, -936, -178, -913, -417, 344, 348, -898,
       -488, 1074, 496, 2075, 1180, 1144, -1388, 764, -53, -551,
       168, 945, 501, -878, 742, -638, 217, -303, -219, 766,
       -1040, 1945, -1821, -598, 370, 584, -100, -57, 411, -231,
       1393, 839, 873, -966, -79, -300, -1006, 360, -538, 655,
       -1070, 1719, -896, 219, 792, -571, 852, -1229, 1452, 14,
       -596, -299, 809, -584, -749, -222, -1177, 1821, -566, 832,
       209, -985, -6, 784, -188, 1193, 1022, 919, -460, -1080,
       -614, 196, 546, -2172, -8, 158, -278, 1291, 422, 1310,
       -216, 937, 1635, 1312, -1092, -254, -345, 489, 686, -839,
       68, -2020, 1442, -512, 56, -310, 1146, -2838, -17, -106,
       -454, 1726, -887, 772, 356, 1262, -667, -733, 1096, 425,
       -1545, -539, 386, 838, -679, -2914, 523, -1220, -2017, -2832,
       814, 129, -226, 1389, 637, 1616, -1393, -35, -1617, -229,
       -249, 627, 46, 623, 703, 2155, -315, -941, 246, -802,
       1482, -283, -566, -471, 718, -158, -642, 1665, -856, 36,
       652, -1631, 480, -1055, 823, -963, 693, 1106, 861, 251,
       -231, -576, 1471, -699, -1037, 665, -796, -950, -1444, -483,
       -83, 243, 951, 527, -191, -198, 510, 1273, 126, -469,
       -993, -1445, 666, 578, 577, -129, 1407, -484, 955, -39,
       -608, 593, 410, 357, 81, -38, 2388, 1184, 723, 112,
       1007, 518, 26, -304, -81, -3170, 211, -488, 1593, 19,
       -1189, -50, -1046, 473, 291, 958, -791, 34, -1365, 701,
       519, 496, 2, 415, 1604, -285, 139, -1086, -868, 98,
       1104, -256, -236, -407, -535, 295, -1497, 1281, -665, 722,
       -1270, 669, 672, 384, -994, 250, -1183, -253, 1029, 797,
       15, -975, 646, 19, -2320, 783, -24, 1202, -1095, -3177,
       279, 292, -1691, -978, 2755, -306, 731, -651, -2090, -170,
       -266, -400, -115, 264, -150, -1264, 486, -1949, -2050, 739,
       507, -57, -1395, -708, -263, -1596, -739, 652, 1427, -419,
       756, -1914, 659, -804, 307, -248, 1320, -874, 628, -280,
       -158, -184, -846, -14, -63, 241, 85, 798, 924, -1051,
       869, -1186, 588, 620, -1911, 93, -468, -759, 1351, -654,
       -806, 76, 686, -142, 1166, 531, -2178, -529, -562, 479,
       -2625, 2549, 531, 149, 1182, 2344, 871, 949, 131, -142,
       -476, -826, -687, -1351, -76, -1685, 191, -36, 147, -522,
       3077, 1360, -1245, 233, -608, -1014, -1340, 432, -681, 968,
       994, 1374, -852, 475, 632, -474, -772, 1610, 227, 636,
       -822, -1219, -569, -124, -1064, -10, -1689, -1120, 671, 604,
       -392, -1018, -1027, -373, 645, 928, -497, -1153, 268, -824,
       -518, 1325, 827, 158, -1272, 211, 1063, -376, 1351, 1293,
       1664, 305, 587, 1414, 447, -501, -449, 239, -1291, -143,
       1097, -2191, 1534, 1122, -460, 543, 3, 1230, 983, -1400,
       587, -206, 83, -728, 1748, 1040, -740, -1335, -386, 435,
       240, 1253, 790, 970, 327, -1389, -196, 1060, -52, 503,
       -319, -1030, -123, 309, -656, -236, -939, 1119, -294, 1453,
       1529, -81, -1008, -2086, -1472, -1374, 1378, 116, 390, -2220,
       -1198, 887, 287, -147, 565, 1636, -221, 69, 193, 2392,
       -2099, 683, -115, 567, -657, -49, 711, 3113, 808, -848,
       -424, -453, -1796, -330, 733, -1274, 1048, 488, -734, -142,
       1598, 734, 9, -238, 77, -512, -2105, 2042, 155, 398,
       -58, -735, -186, -1599, 2277, -1235, -1032, -440, 1288, 15,
       -1236, 1254, 731, 538, 716, 2394, 2185, -687, 1624, 383,
       499, -1692, -170, -813, 828, 1071, -2074, -22, 1122, -187,
       729, 351, 342, -271, -1217, -1122, 709, 19, -139, -424,
       -305, 1047, -335, -1341, 744, -205, 31, 1608, -21, 289,
       -1179, -220, 610, -1555, 201, 101, 41, 1037, 334, 1478,
       -994, 136, 84, -1069, 956, 2325, -17, 505, 85, -714,
       -1821, -706, -1392, 1704, -115, -346, 889, -1122, -767, 68,
       1029, 502, 248, 78, 400, 202, -1030, 46, -1074, 81,
       -481, 2539, -40, -1404, -134, 519, 1673, -589, -1582, 817,
       -1381, -436, -258, -70, 689, -684, -274, -14, 150, 98,
       436, 844, 393, 454, -1582, 50, 480, 729, -692, -659,
       -574, 536, 1034, -407, 908, 123, -124, -211, 747, 326,
       2276, -852, 518, -529, -869, -11, 137, 2918, -184, -1130,
       273, -2075, -92, 16, 795, 974, -504, -151, -766, -1128,
       310, -1274, -415, -995, 550, 1801, -1302, -1853, -125, 16,
       219, -446, -201, 368, 1040, -1955, -369, 214, -918, 1731,
       -635, -41, 556, -591, -1847, -429, 1029, -337, -846, 926,
       -331, -510, 149, 771, 2382, 827, 1160, -506, -1026, 62,
       107, -1079, -175, 399, 360, 504, 291, -507, -514, -1199,
       1785, 13, -225, -929, 2936, -1073, -429, 416, 600, 958,
       1808, 506, -1056, -257, 308, 2068, -1398, 1203, 180, 838,
       -102, -842, 751, 654, 972, -13, -600, -1559, 819, 424,
       -966, -539, -467, -1483, -818, -1134, -412, -739, -1627, 2023,
       1253, -779, 272, 417, 1191, -819, 1092, -548, -1336, 724,
       1291, 2588, -1200, 699, -410, 783, -1470, -1263, -776, 79,
       -641, 659, 1027, 600, 1619, 416, -1217, 1363, -605, 910,
       1574, 457, -1496, -918, 1323, -169, 80, 759, 696, 279,
       -209, -313, 858, 554, -257, 1082, -129, -852, -759, -979,
       -272, 1234, -805, 188, -657, -260, -1510, -221, -194, 540,
       223, -1198, 1084, 210, 198, -9, -518, 218, 476, -1747,
       -539, -255, 256, 1193, -772, -498, -513, -802, -347, 771,
       -1054, 428, -1702, -561, -329, 1675, -275, -2201, -1999, 34,
       614, 375, 168, 1162, -540, 895, -1632, -905, -1807, -275,
       -46, 114, 62, -928, -190, -1497, 1363, -304, -489, 1589,
       -1242, -1126, -1096, -68, 432, 740, 2572, -2249, 609, -557,
       -586, -620, -909, 1685, 842, 23, 1351, -1513, -1331, -2178,
       -699, 162, 103, 149, -1411, 803, 240, 733, -1893, 311,
       -1188, -397, 534, 91, -852, 6, -1532, 1150, -205, 1119,
       -527, -524, -764, 876, -709, 645, -382, -1976, -570, -1179,
       34, -1190, 926, -91, -178, 656, 964, -20, -771, -1774,
       -686, -617, 107, -345, 688, -613, -57, 1184, 342, -60,
       -602, -633, -851, -541, 756, -222, -1350, 1768, 320, -1407,
       -442, 111, 1705, -1108, 976, 1399, -629, -278, -1036, -203,
       -37, 660, 1090, -748, -1967, -21, 294, 249, -327, 125,
       1515, 382, -373, -500, -170, 1637, -183, -20, -482, 1099,
       1960, 451, 83, 37, -2384, 745, 134, 428, -711, -384,
       -411, 1022, -379, 2083, 431, -1276, -129, -652, -2194, 1599,
       703, 533, 165, -1382, -484, 842, -1051, -2532, -227, -142,
       136, 729, 638, 259, 1196, -1519, 505, 627, -1240, -1503,
       -746, -662, 753, -615, -856, -612, 1119, 13, -179, -110,
       1292, -749, 1316, 210, -160, 2501, -1056, -354, -1232, 952,
       1689, 1670, 1224, -198, -365, -1671, 2036, 469, -492, 1328,
       -973, 407, -173, 639, -64, -1451, 76, 1049, -29, 775,
       -1046, -26, -625, 747, 31, 690, 1088, 692, 273, -998,
       -3, -533, -344, -375, -980, -1957, -668, 193, -1348, 16,
       1900, 1023, 1644, 391, 1168, -724, -644, -2739, 1186, 1540,
       -553, -254, -754, 383, 1125, -1743, 409, -277, 113, 459,
       -188, -104, -214, 970, 419, 221, -1271, -379, 899, 38,
       660, 1767, 1039, 93, -511, -2554, -168, -326, 390, -154,
       -320, -1779, -940, 477, 1716, -98, 328, 952, -811, 367,
       -740, 865, 151, 298, -783, 707, 2085, -1008, -340, 232,
       786, -560, -2833, 1359, 761, -1743, -608, 1568, 1448, 939,
       -176, 83, -131, 1128, -876, -806, 1010, -44, 1378, -672,
       -55, -922, 7, -1479, -488, -1436, 694, 717, -1730, 1334,
       2497, 46, -641, 2824, -1319, 20, 180, 1345, 360, -499,
       -951, -342, -1007, 48, -564, -1494, 1255, -498, -1268, -168,
       68, -1746, 332, -1047, 1711, 524, -400, -745, -105, 613,
       -25, -217, 58, -604, -343, -2086, 974, 299, -773, 1899,
       87, -1036, 857, 398, 395, -426, 450, -262, 556, -1905,
       -434, 1722, -767, -604, -448, -1215, -2208, -231, 136, -53,
       -145, 43, 1023, -190, -574, -281, 579, 1412, -628, 99,
       338, -993, 20, -1466, -1769, 367, -384, 202, -18, -976,
       -45, -1233, 1391, -1356, -196, -1042, 570, -331, -519, 853,
       29, 517, -981, -1405, 107, -319, 626, -80, 205, -1623,
       1888, -164, 698, -836, 308, -1303, 452, -356, 29, 698,
       -1233, -684, 457, 2098, -138, 591, -107, 1942, -1747, 95,
       -1626, -2507, 297, 139, -285, -106, 3098, -258, 510, -649,
       295, -238, -411, 1819, 1177, 137, -2304, -361, 2703, -231,
       1103, 1442, 219, -842, -2435, 684, -815, 176, -1250, -265,
       34, 269, -1115, 1197, -597, -1674, -109, 34, 161, 1362,
       -236, -120, -1103, 821, 184, -420, -1905, 1444, -1228, -591,
       358, -1197, -1494, -2124, 721, -545, 2927, -994, -921, -565,
       243, -470, 612, -979, -1382, -1798, -2224, -518, -301, -631,
       1243, 1228, -335, -1794, -567, -600, -657, -698, -653, -387,
       -636, 208, 360, -911, 1271, -980, -1618, 381, -817, 321,
       -2404, 1392, 672, -1500, -1479, 1672, -737, -834, -2266, -351,
       -228, 715, -1399, -1520, 451, 1007, -1571, 1082, 38, 1092,
       -70, -2522, -152, 1060, -894, -388, -176, -2900, 1671, -901,
       506, -87, 1258, 406, -235, -894, 798, -1873, 646, -1099,
       1252, 161, 644, 82, -1752, -861, 672, 167, 1181, 403,
       -967, -796, 103, -2314, 1673, 442, 1227, -1581, 1245, 2231,
       -1321, 771, 1, -1544, 493, 834, -601, 1166, -1667, -1495,
       137, 25, -717, 810, 531, 858, -123, 603, -446, 2054,
       -813, 2105, 35, -1376, 1368, 126, 851, 1224, 338, -592,
       976, 1, 686, -2154, 447, -639, 1653, 623, 240, 486,
       -998, 1623, 1991, 393, 1590, -569, -797, 41, 435, -394,
       538, 306, -998, 519, 864, 171, 1153, -1217, 468, -1170,
       -1114, -631, -942, -548, -214, 837, -321, -1586, 1140, -837,
       -59, 447, 200, 1094, 479, -861, 2179, 194, -147, 964,
       249, 399, 2492, -275, -318, 117, 1072, -1507, -1966, -587,
       -1634, -425, 502, -891, -1427, 69, 863, -1695, 820, 817,
       954, 1218, 2202, -356, 110, -416, 2, 1533, -1345, -861,
       1377, 1020, -363, 854, 341, 1500, 75, 1026, 2642, 598,
       49, 722, -365, 2388, 180, -273, -836, 1097, 867, -497,
       576, -1509, 185, 453, 1707, -771, -1278, -895, -1337, 1337,
       1549, 320, 1221, 134, -95, -333, -310, -1548, 264, -40,
       745, 94, -163, -871, 72, 738, -1143, 87, 233, -718,
       -588, 231, -1133, 350, -895, 1063, 2338, -861, 534, -727,
       1041, -1265, 481, -873, -207, -1031, 822, -837, 552, -344,
       -114, 148, -762, 210, 1530, -778, 1172, 1498, -816, -1455,
       302, -547, 1869, 35, -802, -1147, 1090, -571, 44, 956,
       -484, -46, -17, 683, 591, -220, 64, -372, -1478, 258,
       1892, -884, -773, -871, 725, 448, -159, -918, 92, -1565,
       143, 872, -1251, -1533, 1579, -612, 1136, -154, -162, 438,
       -884, 132, -381, -1320, 337, -263, -157, -1210, 1591, 877,
       964, -305, -1729, 1953, -61, -749, 417, 1167, -23, 1279,
       1083, -1076, -674, 958, -2713, -149, -1431, -477, -299, -358,
       -552, -1097, 2292, 1867, -1162, 1582, -399, 129, -63, -660,
       984, 126, -477, -1305, -894, -1641, 12, -1197, -266, 1370,
       1199, -32, -87, 1880, 521, -328, -1426, 394, 829, -632,
       291, -364, -184, -2488, -222, 969, -631, 53, -756, 360,
       -217, -939, 1333, 929, -605, 498, 537, 642, -1694, 1007,
       -570, -358, 2638, 302, -386, -2205, 1390, -1345, -1003, -331,
       1416, 773, -158, 308, -600, 140, 73, 969, 967, 494,
       -362, 742, -92, -1082, -403, 85, 910, -184, -1209, 57,
       113, 186, 920, 1019, -594, -616, -1040, 699, 1449, -315,
       -241, 1467, 506, 436, -1191, 679, -929, -1134, -347, -586,
       -222, -1441, 959, 1128, -1947, 978, -811, 857, -68, 29,
       -185, 1212, -1240, 608, 1101, 716, 2325, -529, 957, -106,
       1233, -8, -388, 1306, -492, -1413, -517, 619, 1392, 111,
       1318, -1358, -443, -289, -115, 84, 691, -445, 139, -45,
       -926, -114, -144, -165, 32, 76, -432, 1273, -1169, -721,
       2780, -1038, -1354, 734, -2077, -235, 2146, -1545, -1982, -1499,
       898, 1125, -513, 683, 1390, 1787, -246, -2301, -821, -427,
       -259, -188, 1119, 1274, -172, 1098, 358, 65, 907, 72,
       2058, -1438, -515, -127, 439, 1268, -24, -1422, 843, 755,
       -1942, -4, -1590, -665, -903, 809, 117, -1286, 880, -1434,
       330, -814, -366, 504, 521, 1337, -82, 306, -438, 182,
       439, -98, -1804, 331, 365, -680, -1284, 1476, 491, -229,
       -1137, -822, 1303, 138, -551, 510, -814, 1501, 1353, -467,
       -629, -2618, -1482, -1339, 135, -326, -1345, -281, 505, 528,
       -1900, -128, -1383, 902, 784, -898, -766, -461, -2253, 336,
       -273, 970, -1098, -619, -1507, -1004, -1182, 996, -698, 124,
       -381, -1269, -168, 599, -1208, 809, -850, -483, 531, -663,
       38, -315, 129, -2381, -1830, 616, 1037, -910, -244, 295,
       693, -2028, -886, -333, 703, 2498, -228, -1407, 402, 1321,
       108, -907, 958, 664, -1026, 381, 997, 1182, -66, -358 >>

\* The draws of a stream whose values are not determined by the program: a
\* generator still in the state NumPy gave it from the operating system's
\* entropy, or run past the last tabulated draw.
RandnInputs == {-8000, -3000, -1000, 0, 1000, 3000, 8000}

\* The values np.random.randn() may return in the generator state st.
Draws(st) ==
    IF st.seeded /\ st.n + 1 \in DOMAIN Seed42Draws
    THEN {Seed42Draws[st.n + 1]}
    ELSE RandnInputs

\* The sequences of k values that k successive draws from st may return.
RECURSIVE DrawSeqs(_, _)
DrawSeqs(st, k) ==
    IF k = 0 THEN {<<>>}
    ELSE {<<g>> \o rest : g \in Draws(st), rest \in DrawSeqs(RngStep(st), k - 1)}

\* The generator state after k draws from st.
RECURSIVE NthState(_, _)
NthState(st, k) == IF k = 0 THEN st ELSE NthState(RngStep(st), k - 1)

\* The generator when the module is loaded: NumPy has seeded it from the
\* operating system's entropy and nothing has been drawn.
Unseeded == [seeded |-> FALSE, n |-> 0]

\* np.random.seed(seed_value).
np_random_seed == [seeded |-> TRUE, n |-> 0]

\* A plausible slip: the seed call made on the first call only.
seeded_Once(cur) == IF cur.seeded THEN cur ELSE np_random_seed

\* A plausible slip: the seed call left out.
seeded_NoSeed(cur) == cur

\* The generator state after np.random.seed(42), whatever it was before.
seeded(cur) == np_random_seed

\* A plausible slip: the loops nested the other way round (j outside).
NextIndex_ColumnMajor(r, c) ==
    IF r + 1 < Shape(TAU)[1] THEN <<r + 1, c>>
    ELSE IF c + 1 < Shape(TAU)[2] THEN <<0, c + 1>>
    ELSE <<Shape(TAU)[1], 0>>

\* A plausible slip: range(TAU.shape[1] - 1), the last column never visited.
NextIndex_ShortRow(r, c) ==
    IF c + 2 < Shape(TAU)[2] THEN <<r, c + 1>> ELSE <<r + 1, 0>>

\* for i in range(TAU.shape[0]): for j in range(TAU.shape[1]): the indices
\* that follow <<r, c>>; the loops are over when the row is TAU.shape[0].
NextIndex(r, c) ==
    IF c + 1 < Shape(TAU)[2] THEN <<r, c + 1>> ELSE <<r + 1, 0>>

\* The right-hand side of VARIANCE[i, j] = variance_attractor(TAU[i, j],
\* OMEGA[i, j]).
CellValue(r, c, randn) ==
    variance_attractor(TAU[r][c], OMEGA[r][c], randn)

\* A plausible slip: the exception of a failed write swallowed.
AfterSave_Swallow(ok, next) == next

\* Where control goes after plt.savefig: on, or out by the uncaught OSError.
AfterSave(ok, next) == IF ok THEN next ELSE "crashed"

\* The literals of the figure functions.
amplitudes == <<0, 10, 20, 30>>

fig1_omega == 2500

fig1_delta == 0

fig1_z_tau == 2000

fig1_z_hi == 2500

fig2_z_c == 4000

fig2_Delta_z == 500

fig2_z_hi == 10000

\* The literals as the script has them.
ScriptCfg == [z_tau |-> fig1_z_tau, Delta_z |-> fig2_Delta_z, z_start |-> 0]

\* The script's literals and the values section 7 of the specification names
\* as failure modes: z_tau = 0, Delta_z = 0, redshifts down to z <= -1.
Configs ==
    [z_tau : {fig1_z_tau, 0}, Delta_z : {fig2_Delta_z, 0},
     z_start : {0, -Scale, -2 * Scale}]

\* The output files, in the order the script writes them.
FileSeq ==
    <<"figura1.pdf", "figura1.png", "figura2.pdf", "figura2.png",
      "figura3.pdf", "figura3.png">>

AllFiles == {FileSeq[k] : k \in DOMAIN FileSeq}

FileOrder(f) == CHOOSE k \in DOMAIN FileSeq : FileSeq[k] = f

\* ------------------------------------------------------------------------
\* State
\* ------------------------------------------------------------------------

VARIABLES
    pc,               \* the statement about to run
    caller,           \* "main" (run as a script) or "import" (called from outside)
    cfg,              \* the literals z_tau, Delta_z and the first redshift
    rng,              \* the state of np.random's global generator
    w,                \* Figure 1: w_z over z, one array per amplitude
    S,                \* Figure 2: <<S, S_zc3, S_zc5>>
    VARIANCE,         \* Figure 3: the variance array
    i, j,             \* Figure 3: the loop indices
    variance_valley,  \* Figure 3: the variances along the valley line
    files,            \* the files written
    printed,          \* the messages printed
    fault,            \* the uncaught exception, or "none"
    fn, args, ret, det,   \* the last direct call of a model function
    calls,            \* calls made by the importing program
    last,             \* history: the figure function entered last
    rngAtCall,        \* history: the generator state when it was entered
    seedCount,        \* history: np.random.seed calls of the current Figure 3
    gridDraws,        \* history: the grid loop's draws, in order: the cell and
                      \*          the generator state the draw started from
    writes,           \* history: assignments to each cell of VARIANCE
    grids,            \* history: the VARIANCE of every completed grid loop
    entries,          \* history: the generator state at entry of each of them
    failedWrite       \* history: the file whose write failed, or ""

figVars == <<w, S, VARIANCE, i, j, variance_valley>>

fnVars == <<fn, args, ret, det>>

histVars == <<seedCount, gridDraws, writes, grids, entries>>

vars ==
    <<pc, caller, cfg, rng, w, S, VARIANCE, i, j, variance_valley, files,
      printed, fault, fn, args, ret, det, calls, last, rngAtCall, seedCount,
      gridDraws, writes, grids, entries, failedWrite>>

\* The state of a fresh interpreter that has loaded the module.
Loaded ==
    /\ rng = Unseeded
    /\ w = <<>> /\ S = <<>> /\ VARIANCE = <<>> /\ i = 0 /\ j = 0
    /\ variance_valley = <<>>
    /\ files = {} /\ printed = {} /\ fault = "none"
    /\ fn = "none" /\ args = <<>> /\ ret = NaN /\ det = 0
    /\ calls = 0 /\ last = "none" /\ rngAtCall = rng
    /\ seedCount = 0 /\ gridDraws = <<>> /\ writes = <<>>
    /\ grids = <<>> /\ entries = <<>> /\ failedWrite = ""

\* python figures_script.py
Init == Loaded /\ pc = "start" /\ caller = "main" /\ cfg \in Configs

\* import figures_script, then calls of its functions in any order
InitCalls == Loaded /\ pc = "idle" /\ caller = "import" /\ cfg = ScriptCfg

\* Where a figure function returns to.
Return(next) == IF caller = "main" THEN next ELSE "idle"

\* ------------------------------------------------------------------------
\* __main__ (lines 235-260)
\* ------------------------------------------------------------------------

\* The opening banner, up to the call of plot_wz_different_amplitudes.
MainHeader ==
    /\ pc = "start"
    /\ pc' = "fig1"
    /\ printed' = printed \cup {"header"}
    /\ last' = "fig1" /\ rngAtCall' = rng
    /\ UNCHANGED <<caller, cfg, rng, files, fault, calls, failedWrite>>
    /\ UNCHANGED <<figVars, fnVars, histVars>>

\* The closing banner: reached only when the three calls returned.
MainFooter ==
    /\ pc = "end"
    /\ pc' = "done"
    /\ printed' = printed \cup {"success"}
    /\ UNCHANGED <<caller, cfg, rng, files, fault, calls, last, rngAtCall,
                   failedWrite>>
    /\ UNCHANGED <<figVars, fnVars, histVars>>

\* ------------------------------------------------------------------------
\* plt.savefig and the print that follows the second one
\* ------------------------------------------------------------------------

\* One plt.savefig at `at`; the write succeeds or raises OSError, which
\* nothing catches.  `msg` is printed when control reaches `next` and `msg`
\* is not empty.
Save(at, file, next, msg) ==
    /\ pc = at
    /\ \E ok \in BOOLEAN :
          /\ pc' = AfterSave(ok, next)
          /\ files' = IF ok THEN files \cup {file} ELSE files
          /\ failedWrite' = IF ok THEN failedWrite ELSE file
          /\ fault' = IF pc' = "crashed" THEN "OSError" ELSE fault
          /\ printed' = IF pc' # "crashed" /\ msg # ""
                        THEN printed \cup {msg} ELSE printed
    /\ UNCHANGED <<caller, cfg, rng, calls, last, rngAtCall>>
    /\ UNCHANGED <<figVars, fnVars, histVars>>

\* ------------------------------------------------------------------------
\* plot_wz_different_amplitudes (lines 41-78)
\* ------------------------------------------------------------------------

\* z = np.linspace(0, 2.5, 500) and w = w_z(z, A, omega, delta, z_tau) for
\* each amplitude; the plotting calls draw and change nothing else.
Fig1Compute ==
    /\ pc = "fig1"
    /\ LET z == linspace(cfg.z_start, fig1_z_hi, NZ)
       IN  w' = [a \in DOMAIN amplitudes |->
                    [k \in DOMAIN z |->
                        w_z(ArrayElem(z[k]), amplitudes[a], fig1_omega, fig1_delta,
                            cfg.z_tau)]]
    /\ pc' = "fig1_pdf"
    /\ UNCHANGED <<caller, cfg, rng, S, VARIANCE, i, j, variance_valley, files,
                   printed, fault, calls, last, rngAtCall, failedWrite>>
    /\ UNCHANGED <<fnVars, histVars>>

Fig1SavePdf == Save("fig1_pdf", "figura1.pdf", "fig1_png", "")

Fig1SavePng == Save("fig1_png", "figura1.png", Return("fig2"), "fig1")

\* ------------------------------------------------------------------------
\* plot_geometric_cutoff (lines 92-134)
\* ------------------------------------------------------------------------

\* z = np.linspace(0, 10, 500); S, S_zc3, S_zc5.
Fig2Compute ==
    /\ pc = "fig2"
    /\ LET z == linspace(0, fig2_z_hi, NZ)
       IN  S' = << [k \in DOMAIN z |-> S_z(ArrayElem(z[k]), fig2_z_c, cfg.Delta_z)],
                   [k \in DOMAIN z |-> S_z(ArrayElem(z[k]), 3000, 500)],
                   [k \in DOMAIN z |-> S_z(ArrayElem(z[k]), 5000, 500)] >>
    /\ pc' = "fig2_pdf"
    /\ last' = "fig2" /\ rngAtCall' = IF caller = "main" THEN rng ELSE rngAtCall
    /\ UNCHANGED <<caller, cfg, rng, w, VARIANCE, i, j, variance_valley, files,
                   printed, fault, calls, failedWrite>>
    /\ UNCHANGED <<fnVars, histVars>>

Fig2SavePdf == Save("fig2_pdf", "figura2.pdf", "fig2_png", "")

Fig2SavePng == Save("fig2_png", "figura2.png", Return("fig3"), "fig2")

\* ------------------------------------------------------------------------
\* plot_resilience_valley (lines 172-229)
\* ------------------------------------------------------------------------

\* Lines 176-183: the coordinate arrays, the meshes, np.random.seed(42) and
\* VARIANCE = np.zeros_like(TAU).
Fig3Seed ==
    /\ pc = "fig3"
    /\ rng' = seeded(rng)
    /\ VARIANCE' = zeros_like(TAU)
    /\ i' = 0 /\ j' = 0
    /\ pc' = "fig3_grid"
    /\ last' = "fig3" /\ rngAtCall' = IF caller = "main" THEN rng ELSE rngAtCall
    /\ entries' = Append(entries, rng)
    /\ seedCount' = 1
    /\ gridDraws' = <<>>
    /\ writes' = zeros_like(TAU)
    /\ UNCHANGED <<caller, cfg, w, S, variance_valley, files, printed, fault,
                   calls, grids, failedWrite>>
    /\ UNCHANGED fnVars

\* Line 187, once per iteration of the nested loops of lines 185-186: one
\* draw from the generator inside variance_attractor, one assignment.
Fig3Cell ==
    /\ pc = "fig3_grid"
    /\ \E randn \in Draws(rng) :
       LET nx == NextIndex(i, j)
           over == nx[1] >= Shape(TAU)[1]
           V == [VARIANCE EXCEPT ![i][j] = CellValue(i, j, randn)]
       IN  /\ rng' = RngStep(rng)
           /\ VARIANCE' = V
           /\ writes' = [writes EXCEPT ![i][j] = @ + 1]
           /\ gridDraws' = Append(gridDraws, [before |-> rng, cell |-> <<i, j>>,
                                              randn |-> randn])
           /\ i' = nx[1] /\ j' = nx[2]
           /\ pc' = IF over THEN "fig3_valley" ELSE "fig3_grid"
           /\ grids' = IF over THEN Append(grids, V) ELSE grids
    /\ UNCHANGED <<caller, cfg, w, S, variance_valley, files, printed, fault,
                   calls, last, rngAtCall, seedCount, entries, failedWrite>>
    /\ UNCHANGED fnVars

\* Lines 198-200: tau_valley, omega_valley and the list comprehension, one
\* further draw per point of the valley line.
Fig3Valley ==
    /\ pc = "fig3_valley"
    /\ \E randn \in DrawSeqs(rng, NValley) :
       LET tau_valley == linspace(300, 4000, NValley)
       IN  variance_valley' =
              [k \in DOMAIN tau_valley |->
                  variance_attractor(tau_valley[k],
                                     DivFx(2 * Scale, tau_valley[k]),
                                     randn[k + 1])]
    /\ rng' = NthState(rng, NValley)
    /\ pc' = "fig3_pdf"
    /\ UNCHANGED <<caller, cfg, w, S, VARIANCE, i, j, files, printed, fault,
                   calls, last, rngAtCall, seedCount, gridDraws, writes, grids,
                   entries, failedWrite>>
    /\ UNCHANGED fnVars

Fig3SavePdf == Save("fig3_pdf", "figura3.pdf", "fig3_png", "")

Fig3SavePng == Save("fig3_png", "figura3.png", Return("end"), "fig3")

\* ------------------------------------------------------------------------
\* Calls from a program that imported the module
\* ------------------------------------------------------------------------

\* A call of one of the three figure functions.
CallFigure ==
    /\ pc = "idle" /\ calls < MaxCalls
    /\ \E f \in {"fig1", "fig2", "fig3"} : pc' = f /\ last' = f
    /\ calls' = calls + 1
    /\ rngAtCall' = rng
    /\ UNCHANGED <<caller, cfg, rng, files, printed, fault, failedWrite>>
    /\ UNCHANGED <<figVars, fnVars, histVars>>

\* A direct call variance_attractor(tau_H0, omega): it draws once.
CallVarianceAttractor ==
    /\ pc = "idle" /\ calls < MaxCalls
    /\ \E t \in {1000, 100}, o \in {2000}, randn \in Draws(rng) :
          /\ rng' = RngStep(rng)
          /\ fn' = "variance_attractor"
          /\ args' = <<t, o, randn>>
          /\ det' = variance_det(t, o)
          /\ ret' = variance_attractor(t, o, randn)
    /\ calls' = calls + 1
    /\ last' = "variance_attractor" /\ rngAtCall' = rng
    /\ UNCHANGED <<pc, caller, cfg, files, printed, fault, failedWrite,
                   seedCount, gridDraws, writes, grids, entries>>
    /\ UNCHANGED figVars

\* ------------------------------------------------------------------------
\* The model functions on their own, over inputs of every kind
\* ------------------------------------------------------------------------

ZInputs == {-2000, -1000, -999, -500, 0, 500, 1250, 2500, 10000, 16325}

AInputs == {0, 20, 30}

OmegaInputs == {0, 1000, 2500, 2000000000}

DeltaInputs == {0, 1571}

ZTauInputs == {-1000, -23, -3, -1, 0, 1, 500, 2000}

ZcInputs == {-3000, 0, 3000, 4000, 5000}

DeltaZInputs == {-500, -1, 0, 1, 500, 2000}

TauH0Inputs ==
    {-1000, 0, 100, 250, 299, 300, 301, 400, 500, 1000, 2000, 4000, 5999,
     6000, 6001, 8000}

OmegaVAInputs ==
    {-1000, 0, 250, 499, 500, 501, 1000, 2000, 4000, 5000, 5999, 6000, 6001,
     8000}


InitFn == Loaded /\ pc = "fn" /\ caller = "import" /\ cfg = ScriptCfg

\* One call f(a) returning r, or raising when r is Raise, and leaving the
\* generator in the state st; d is the noise-free component, for
\* variance_attractor.
Apply(f, a, r, d, st) ==
    /\ pc = "fn"
    /\ pc' = "fn_done"
    /\ fn' = f /\ args' = a /\ ret' = r /\ det' = d
    /\ rng' = st
    /\ fault' = IF f # "variance_attractor" /\ r = Raise
                THEN "ZeroDivisionError" ELSE fault
    /\ UNCHANGED <<caller, cfg, files, printed, calls, last, rngAtCall,
                   failedWrite>>
    /\ UNCHANGED <<figVars, histVars>>

\* z as a Python float and as an element of a NumPy array.
ZKinds(vs) == {PyFloat(v) : v \in vs} \cup {ArrayElem(v) : v \in vs}

Fn_w_z ==
    \E z \in ZKinds(ZInputs), A \in AInputs, omega \in OmegaInputs,
       delta \in DeltaInputs, z_tau \in ZTauInputs :
        Apply("w_z", <<z, A, omega, delta, z_tau>>,
              w_z(z, A, omega, delta, z_tau), 0, rng)

Fn_S_z ==
    \E z \in ZKinds(ZInputs \cup ZcInputs), z_c \in ZcInputs,
       Delta_z \in DeltaZInputs :
        Apply("S_z", <<z, z_c, Delta_z>>, S_z(z, z_c, Delta_z), 0, rng)

\* The call draws once from the global generator; the third entry of args
\* is the value drawn.
Fn_variance_attractor ==
    \E tau_H0 \in TauH0Inputs, omega \in OmegaVAInputs, randn \in Draws(rng) :
        Apply("variance_attractor", <<tau_H0, omega, randn>>,
              variance_attractor(tau_H0, omega, randn),
              variance_det(tau_H0, omega), RngStep(rng))

\* ------------------------------------------------------------------------
\* Specifications
\* ------------------------------------------------------------------------

FigureSteps ==
    \/ Fig1Compute \/ Fig1SavePdf \/ Fig1SavePng
    \/ Fig2Compute \/ Fig2SavePdf \/ Fig2SavePng
    \/ Fig3Seed \/ Fig3Cell \/ Fig3Valley \/ Fig3SavePdf \/ Fig3SavePng

Next == MainHeader \/ FigureSteps \/ MainFooter

\* The script run as a program.
Spec == Init /\ [][Next]_vars

NextCalls == CallFigure \/ CallVarianceAttractor \/ FigureSteps

\* The module imported and its functions called, in any order.
SpecCalls == InitCalls /\ [][NextCalls]_vars

NextFn == Fn_w_z \/ Fn_S_z \/ Fn_variance_attractor

\* The model functions applied to inputs of every kind.
SpecFn == InitFn /\ [][NextFn]_vars

\* ------------------------------------------------------------------------
\* Properties of the model functions (SpecFn)
\* ------------------------------------------------------------------------

\* The inputs of the last direct call of variance_attractor.
IsVA == fn = "variance_attractor"

\* C1: whatever tau_H0, omega and the noise draw, however negative, the
\* variance returned by variance_attractor is a number >= 0.01: never
\* negative, never zero.
C1_Floor ==
    IsVA => ret >= 10 /\ ret > 0

\* C1 witness: a draw so negative that variance + noise is below zero, and
\* the floor returned.
C1_Witness ==
    /\ IsVA /\ args[3] = -8000
    /\ det + MulFx(noise_sd, args[3]) < 0
    /\ ret = 10

\* The noise-free component without either penalty: 0.15 - 0.12 * valley.
Unpenalized(tau_H0, omega) ==
    150 - MulFx(120, valley_term(MulFx(tau_H0, omega)))

\* C5: the noise-free component is the unpenalized one plus exactly 0.1 iff
\* tau_H0 is outside [0.3, 6], plus exactly 0.1 iff omega is outside
\* [0.5, 6]; the endpoints are not penalized and both penalties add to 0.2.
C5_Penalties ==
    IsVA =>
        LET tauOut == ~(300 <= args[1] /\ args[1] <= 6000)
            omegaOut == ~(500 <= args[2] /\ args[2] <= 6000)
            added == det - Unpenalized(args[1], args[2])
        IN  /\ added = (IF tauOut THEN 100 ELSE 0) + (IF omegaOut THEN 100 ELSE 0)
            /\ (tauOut /\ omegaOut <=> added = 200)
            /\ (args[1] \in {300, 6000} /\ args[2] \in {500, 6000} => added = 0)

\* C5 witness: both parameters outside their ranges, 0.2 added.
C5_Witness ==
    /\ IsVA /\ args[1] = 100 /\ args[2] = 8000
    /\ det = Unpenalized(100, 8000) + 200

\* C6: on the curve tau_H0 * omega = 2, inside both ranges, the noise-free
\* component is exactly 0.03, and it is nowhere smaller than 0.03.
C6_ValleyFloor ==
    IsVA =>
        /\ (/\ args[1] * args[2] = 2 * Scale * Scale
            /\ 300 <= args[1] /\ args[1] <= 6000
            /\ 500 <= args[2] /\ args[2] <= 6000) => det = 30
        /\ det >= 30

\* C6 witness: (0.4, 5.0) is on the curve and inside both ranges.
C6_Witness == IsVA /\ args[1] = 400 /\ args[2] = 5000 /\ det = 30

ExpOverflows(z, z_tau) ==
    z_tau # 0 /\ XCmp(XDiv(Fin(-z), Fin(z_tau), FALSE), ExpOverflowX) > 0

C9_Centre ==
    fn = "S_z" /\ args[1].v = args[2] /\ args[3] # 0 => ret = Fin(500)

\* C9 witness: a negative, tiny Delta_z at the centre z = z_c = 4.
C9_Witness ==
    fn = "S_z" /\ args = <<PyFloat(4000), 4000, -1>> /\ ret = Fin(500)

\* ------------------------------------------------------------------------
\* Properties of the grid evaluation and of the script (Spec)
\* ------------------------------------------------------------------------

\* The generator state k draws after np.random.seed(42).
AfterSeed(k) == NthState(np_random_seed, k)

\* C3: the seed is set once, before the first cell; then the k-th draw
\* after seeding (k from 0) is the one draw of cell [k div m, k mod m], with
\* m = NTau columns, and the grid loop consumes n * m draws in all.
C3_SeedOnceRowMajor ==
    /\ seedCount <= 1
    /\ (gridDraws # <<>> \/ pc = "fig3_grid") => seedCount = 1
    /\ \A k \in 0..(Len(gridDraws) - 1) :
          /\ gridDraws[k + 1].cell = <<k \div NTau, k % NTau>>
          /\ gridDraws[k + 1].before = AfterSeed(k)
    /\ pc = "fig3_grid" =>
          /\ Len(gridDraws) = i * NTau + j
          /\ rng = AfterSeed(Len(gridDraws))
    /\ grids # <<>> => Len(gridDraws) = NOmega * NTau

\* C3 witness: the grid loop just over, n * m draws consumed.
C3_Witness ==
    /\ pc = "fig3_valley" /\ seedCount = 1
    /\ Len(gridDraws) = NOmega * NTau
    /\ rng = AfterSeed(NOmega * NTau)

\* The draws the grid loop made for cell [r, c].
DrawsOf(r, c) == {k \in DOMAIN gridDraws : gridDraws[k].cell = <<r, c>>}

\* C4: VARIANCE has n rows and m columns, the shape of both meshes; no cell
\* is written twice; and once the loop is over every cell [r, c] has been
\* written once and holds variance_attractor at (tau_H0_vals[c],
\* omega_vals[r]) with the draw made for that cell, which is not zero.
C4_GridCells ==
    /\ VARIANCE # <<>> =>
          /\ Shape(VARIANCE) = <<NOmega, NTau>>
          /\ Shape(VARIANCE) = Shape(TAU) /\ Shape(VARIANCE) = Shape(OMEGA)
          /\ \A r \in DOMAIN VARIANCE : \A c \in DOMAIN VARIANCE[r] :
                writes[r][c] <= 1
    /\ grids # <<>> =>
          \A r \in 0..(NOmega - 1) : \A c \in 0..(NTau - 1) :
             /\ writes[r][c] = 1
             /\ VARIANCE[r][c] # 0
             /\ \E k \in DrawsOf(r, c) :
                   /\ DrawsOf(r, c) = {k}
                   /\ gridDraws[k].randn \in Draws(gridDraws[k].before)
                   /\ VARIANCE[r][c] =
                         variance_attractor(tau_H0_vals[c], omega_vals[r],
                                            gridDraws[k].randn)

\* C4 witness: the script finished, the grid complete, its last cell set.
C4_Witness ==
    /\ pc = "done" /\ grids = <<VARIANCE>>
    /\ writes[NOmega - 1][NTau - 1] = 1
    /\ VARIANCE[NOmega - 1][NTau - 1] >= 10

\* Whether w and S hold what the script computed with the failure-mode
\* literals: values, not faults.
NumericFailureOccurred ==
    \/ w # <<>> /\ (cfg.z_tau = 0 \/ cfg.z_start <= -Scale)
    \/ S # <<>> /\ cfg.Delta_z = 0

C2_Deterministic ==
    \A a \in DOMAIN grids : \A b \in DOMAIN grids :
        \A r \in DOMAIN TAU : \A c \in DOMAIN TAU[r] :
            grids[a][r][c] = grids[b][r][c]

\* C2 witness: two completed runs that were entered with the generator in
\* different states.
C2_Witness == Len(grids) >= 2 /\ entries[1] # entries[2]

\* The grid a freshly seeded generator gives.
ExpectedGrid ==
    [r \in 0..(NOmega - 1) |-> [c \in 0..(NTau - 1) |->
        variance_attractor(tau_H0_vals[c], omega_vals[r],
                           Seed42Draws[r * NTau + c + 1])]]

\* C10: the grid of plot_resilience_valley does not depend on the generator
\* state at entry, whatever was called before; and
\* plot_wz_different_amplitudes and plot_geometric_cutoff leave the
\* generator as they found it.
C10_NoCarryOver ==
    /\ \A a \in DOMAIN grids : grids[a] = ExpectedGrid
    /\ last \in {"fig1", "fig2"} => rng = rngAtCall

\* C10 witness: a second plot_resilience_valley entered right after a first
\* one, whose valley line drew NValley values after its grid.
C10_Witness ==
    /\ Len(grids) = 2 /\ pc = "fig3_valley"
    /\ entries[2] = AfterSeed(NOmega * NTau + NValley)
    /\ entries[2] # entries[1]

====
